---- MODULE Spec2Model ----
(***************************************************************************)
(* Claim adjudication pipeline of the OPD claim system.                    *)
(*                                                                         *)
(* ClaimAdjudicator.adjudicate_claim (adjudication_engine.py) is modelled  *)
(* stage by stage: one action per pipeline stage, the position in the call *)
(* held in pc.  PolicyValidator (policy_validator.py) and the document     *)
(* helpers (document_processor.py) are operators.                          *)
(*                                                                         *)
(* Representation.                                                         *)
(*   text    a sequence of one-character strings, so that Python's         *)
(*           `a in b`, lower(), strip() and split() are computed           *)
(*   date    a "%Y-%m-%d" string is the record [y, m, d]; a parsed         *)
(*           datetime is its day number (days since 1970-01-01)            *)
(*   money   rupees as integers in the inputs; the results of              *)
(*           calculate_copay are in paise (1/100 rupee), the precision     *)
(*           round(x, 2) keeps                                             *)
(*   scores  fraud score in tenths, confidence_score in hundredths         *)
(*   absent  a text that is None or missing is the empty text and an       *)
(*           amount that is missing is 0 (the code tests them only for     *)
(*           truth, or reads them with dict.get(key, 0)); a date that is   *)
(*           None or missing is NoDate; a section or the member context    *)
(*           that is None, missing or {} has present = FALSE               *)
(*   clock   datetime.now() to the second, a number; the claim identifier  *)
(*           is the second it was built in                                 *)
(*                                                                         *)
(* Spec runs one call at a time and the PolicyValidator methods on their   *)
(* own (validator_call); SpecTwoCalls runs two calls of two threads on one *)
(* adjudicator, the frame of the thread that is not running held in        *)
(* waiting_frame.  SpecUpload follows upload_documents (main.py) and the   *)
(* temporary files it creates; SpecRegister follows register_member at the *)
(* server processes that share the members table.                          *)
(***************************************************************************)
EXTENDS Integers, Sequences, FiniteSets, TLC

VARIABLES policy, claim_data, member_info, pc, decision, ctx, validator_call,
          waiting_frame, clock

\* main.py: one upload_documents request, its temporary files and the disk
VARIABLES upload_pc, upload_no, has_test_report, saved_paths, temp_files,
          disk, upload_status

adjudicator_vars ==
    <<policy, claim_data, member_info, pc, decision, ctx, validator_call,
      waiting_frame, clock>>

upload_vars ==
    <<upload_pc, upload_no, has_test_report, saved_paths, temp_files, disk,
      upload_status>>

\* main.py: the members and audit_log tables of the database, the
\* register_member request each server process is handling, and the number
\* of requests received
VARIABLES members, audit_log, registration, register_no

register_vars == <<members, audit_log, registration, register_no>>

service_vars == <<upload_vars, register_vars>>

vars == <<adjudicator_vars, service_vars>>

----------------------------------------------------------------------------
(* Text: str.lower, `in`, strip, split                                     *)

UpperCase == <<"A","B","C","D","E","F","G","H","I","J","K","L","M",
               "N","O","P","Q","R","S","T","U","V","W","X","Y","Z">>
LowerCase == <<"a","b","c","d","e","f","g","h","i","j","k","l","m",
               "n","o","p","q","r","s","t","u","v","w","x","y","z">>
Digits == {"0","1","2","3","4","5","6","7","8","9"}

IsUpper(c) == \E i \in 1..Len(UpperCase) : UpperCase[i] = c
IsDigit(c) == c \in Digits
IsSpace(c) == c \in {" ", "\n", "\t"}

LowerChar(c) ==
    IF IsUpper(c)
    THEN LowerCase[CHOOSE i \in 1..Len(UpperCase) : UpperCase[i] = c]
    ELSE c

\* str.lower()
Lower(s) == [i \in 1..Len(s) |-> LowerChar(s[i])]

\* needle in hay  (the empty needle is in every text)
Contains(needle, hay) ==
    \E i \in 1..(Len(hay) - Len(needle) + 1) :
        \A j \in 1..Len(needle) : hay[i + j - 1] = needle[j]

\* any(kw in text for kw in keywords)
AnyIn(keywords, text) == \E k \in 1..Len(keywords) : Contains(keywords[k], text)

\* str.strip()
RECURSIVE LStrip(_)
LStrip(s) == IF s # <<>> /\ IsSpace(Head(s)) THEN LStrip(Tail(s)) ELSE s
RECURSIVE RStrip(_)
RStrip(s) ==
    IF s # <<>> /\ IsSpace(s[Len(s)]) THEN RStrip(SubSeq(s, 1, Len(s) - 1)) ELSE s
Strip(s) == RStrip(LStrip(s))

\* set(str.split()): the set of maximal runs of non-space characters
Words(s) ==
    { SubSeq(s, i, j) : <<i, j>> \in
        { p \in (1..Len(s)) \X (1..Len(s)) :
            /\ p[1] <= p[2]
            /\ \A k \in p[1]..p[2] : ~IsSpace(s[k])
            /\ (p[1] = 1 \/ IsSpace(s[p[1] - 1]))
            /\ (p[2] = Len(s) \/ IsSpace(s[p[2] + 1])) } }

\* " ".join(texts)
RECURSIVE JoinSpace(_)
JoinSpace(texts) ==
    IF texts = <<>> THEN <<>>
    ELSE IF Len(texts) = 1 THEN texts[1]
    ELSE texts[1] \o <<" ">> \o JoinSpace(Tail(texts))

----------------------------------------------------------------------------
(* Dates: datetime.strptime(s, "%Y-%m-%d"), + timedelta(days), strftime    *)

Date(y, m, d) == [y |-> y, m |-> m, d |-> d]

\* a date field that is None or missing
NoDate == Date(0, 0, 0)

IsLeap(y) == (y % 4 = 0 /\ y % 100 # 0) \/ y % 400 = 0

DaysInMonth(y, m) ==
    IF m = 2 THEN (IF IsLeap(y) THEN 29 ELSE 28)
    ELSE IF m \in {4, 6, 9, 11} THEN 30 ELSE 31

\* strptime accepts the string: a calendar date
Parseable(s) ==
    /\ s.m \in 1..12
    /\ s.d \in 1..DaysInMonth(s.y, s.m)

\* day number of a calendar date (proleptic Gregorian, 1970-01-01 = 0)
DaysFromCivil(y, m, d) ==
    LET yy  == IF m <= 2 THEN y - 1 ELSE y
        era == yy \div 400
        yoe == yy - era * 400
        mp  == (m + 9) % 12
        doy == (153 * mp + 2) \div 5 + d - 1
        doe == yoe * 365 + yoe \div 4 - yoe \div 100 + doy
    IN  era * 146097 + doe - 719468

\* datetime.strptime(s, "%Y-%m-%d")
ParseDate(s) == DaysFromCivil(s.y, s.m, s.d)

\* datetime.strftime("%Y-%m-%d")
FormatDate(z) ==
    LET zz  == z + 719468
        era == zz \div 146097
        doe == zz - era * 146097
        yoe == (doe - doe \div 1460 + doe \div 36524 - doe \div 146096) \div 365
        doy == doe - (365 * yoe + yoe \div 4 - yoe \div 100)
        mp  == (5 * doy + 2) \div 153
        d   == doy - (153 * mp + 2) \div 5 + 1
        m   == IF mp < 10 THEN mp + 3 ELSE mp - 9
        y   == yoe + era * 400 + (IF m <= 2 THEN 1 ELSE 0)
    IN  [y |-> y, m |-> m, d |-> d]

----------------------------------------------------------------------------
(* Keyword lists of the code                                               *)

\* exclusion keywords, in dictionary order
primary_exclusions ==
    << [type |-> <<"w","e","i","g","h","t"," ","l","o","s","s">>,
        keywords |-> << <<"o","b","e","s","i","t","y">>, <<"w","e","i","g","h","t"," ","l","o","s","s">>, <<"b","a","r","i","a","t","r","i","c">> >>],
       [type |-> <<"i","n","f","e","r","t","i","l","i","t","y">>,
        keywords |-> << <<"i","n","f","e","r","t","i","l","i","t","y">>, <<"i","v","f">>, <<"f","e","r","t","i","l","i","t","y"," ","t","r","e","a","t","m","e","n","t">> >>],
       [type |-> <<"e","x","p","e","r","i","m","e","n","t","a","l">>,
        keywords |-> << <<"e","x","p","e","r","i","m","e","n","t","a","l">>, <<"i","n","v","e","s","t","i","g","a","t","i","o","n","a","l">> >>] >>

secondary_exclusions ==
    << [type |-> <<"c","o","s","m","e","t","i","c">>,
        keywords |-> << <<"c","o","s","m","e","t","i","c">>, <<"a","e","s","t","h","e","t","i","c">>, <<"b","e","a","u","t","i","f","i","c","a","t","i","o","n">>, <<"w","h","i","t","e","n","i","n","g">> >>],
       [type |-> <<"s","u","p","p","l","e","m","e","n","t","s">>,
        keywords |-> << <<"d","i","e","t"," ","p","l","a","n">>, <<"w","e","i","g","h","t"," ","m","a","n","a","g","e","m","e","n","t"," ","p","r","o","g","r","a","m">> >>] >>

preauth_tests == << <<"m","r","i">>, <<"c","t"," ","s","c","a","n">> >>

network_hospitals == << <<"A","p","o","l","l","o">>, <<"F","o","r","t","i","s">>, <<"M","a","x">>, <<"M","a","n","i","p","a","l">>, <<"N","a","r","a","y","a","n","a">> >>

dental_keywords == << <<"t","o","o","t","h">>, <<"d","e","n","t","a","l">>, <<"r","o","o","t"," ","c","a","n","a","l">>, <<"f","i","l","l","i","n","g">>, <<"e","x","t","r","a","c","t","i","o","n">>, <<"d","e","c","a","y">> >>
vision_keywords == << <<"e","y","e">>, <<"v","i","s","i","o","n">>, <<"g","l","a","s","s","e","s">>, <<"c","o","n","t","a","c","t"," ","l","e","n","s">>, <<"l","a","s","i","k">> >>
alt_keywords == << <<"a","y","u","r","v","e","d">>, <<"h","o","m","e","o","p","a","t","h">>, <<"u","n","a","n","i">>, <<"p","a","n","c","h","a","k","a","r","m","a">>, <<"c","h","r","o","n","i","c"," ","j","o","i","n","t">> >>
diagnostic_keywords == << <<"m","r","i">>, <<"c","t"," ","s","c","a","n">>, <<"u","l","t","r","a","s","o","u","n","d">>, <<"x","-","r","a","y">> >>

\* the keywords _calculate_excluded_amount looks for in an excluded entry
whitening_keywords == << <<"w","h","i","t","e","n","i","n","g">>, <<"c","o","s","m","e","t","i","c">> >>
diet_keywords == << <<"w","e","i","g","h","t">>, <<"d","i","e","t">> >>

----------------------------------------------------------------------------
(* The inputs: policy_terms.json, claim data, member context               *)

MaxSameDay == 3
MaxLastMonth == 5

JoinDate == Date(2024, 1, 1)

\* policy_terms.json as loaded by PolicyValidator.__init__: two configurations
PolicyA ==
    [effective_date |-> Date(2024, 1, 1),
     waiting_periods |->
        [initial_waiting |-> 30,
         specific_ailments |->
            << [ailment |-> <<"d","i","a","b","e","t","e","s">>, days |-> 90],
               [ailment |-> <<"h","y","p","e","r","t","e","n","s","i","o","n">>, days |-> 90],
               [ailment |-> <<"j","o","i","n","t"," ","r","e","p","l","a","c","e","m","e","n","t">>, days |-> 730] >>],
     coverage_details |->
        [per_claim_limit |-> 5000, annual_limit |-> 50000,
         sub_limit |-> [diagnostic_tests |-> 10000, pharmacy |-> 15000,
                        dental |-> 10000, vision |-> 5000,
                        alternative_medicine |-> 8000],
         consultation_fees |-> [copay_percentage |-> 10, network_discount |-> 5]],
     claim_requirements |-> [minimum_claim_amount |-> 500]]

PolicyB ==
    [effective_date |-> Date(2024, 1, 1),
     waiting_periods |->
        [initial_waiting |-> 90,
         specific_ailments |->
            << [ailment |-> <<"D","i","a","b","e","t","e","s">>, days |-> 30],
               [ailment |-> <<"h","y","p","e","r","t","e","n","s","i","o","n">>, days |-> 180] >>],
     coverage_details |->
        [per_claim_limit |-> 15000, annual_limit |-> 50000,
         sub_limit |-> [diagnostic_tests |-> 20000, pharmacy |-> 15000,
                        dental |-> 5000, vision |-> 5000,
                        alternative_medicine |-> 8000],
         consultation_fees |-> [copay_percentage |-> 20, network_discount |-> 30]],
     claim_requirements |-> [minimum_claim_amount |-> 500]]

Policies == {PolicyA, PolicyB}

\* texts of the claim data
ViralFever == <<"V","i","r","a","l"," ","f","e","v","e","r">>
BackPain == <<"B","a","c","k"," ","p","a","i","n">>
BariatricSurgery == <<"B","a","r","i","a","t","r","i","c"," ","s","u","r","g","e","r","y"," ","f","o","r"," ","o","b","e","s","i","t","y">>
Type2Diabetes == <<"T","y","p","e"," ","2"," ","D","i","a","b","e","t","e","s">>
DiabetesHypertension == <<"D","i","a","b","e","t","e","s"," ","w","i","t","h"," ","h","y","p","e","r","t","e","n","s","i","o","n">>
CosmeticConcern == <<"C","o","s","m","e","t","i","c"," ","c","o","n","c","e","r","n">>
Consultation == <<"C","o","n","s","u","l","t","a","t","i","o","n">>
TeethWhiteningCosmetic == <<"T","e","e","t","h"," ","w","h","i","t","e","n","i","n","g"," ","(","c","o","s","m","e","t","i","c",")">>
TeethWhitening == <<"T","e","e","t","h"," ","w","h","i","t","e","n","i","n","g">>
IVFCycle == <<"I","V","F"," ","c","y","c","l","e">>
MRIScan == <<"M","R","I"," ","s","c","a","n">>
CosmeticDietPlan == <<"C","o","s","m","e","t","i","c"," ","d","i","e","t"," ","p","l","a","n">>
BariatricDietPlan == <<"B","a","r","i","a","t","r","i","c"," ","c","o","n","s","u","l","t","a","t","i","o","n"," ","a","n","d"," ","d","i","e","t"," ","p","l","a","n">>
RajeshKumar == <<"R","a","j","e","s","h"," ","K","u","m","a","r">>

NoPrescription(present) ==
    [present |-> present, diagnosis |-> <<>>, procedures |-> <<>>,
     treatment |-> <<>>, medicines_prescribed |-> <<>>, tests_prescribed |-> <<>>,
     doctor_reg |-> <<>>, patient_name |-> <<>>, treatment_date |-> NoDate]

\* a prescription with valid registration, name and date
Prescription(diagnosis, procedures, treatment, tests) ==
    [present |-> TRUE, diagnosis |-> diagnosis, procedures |-> procedures,
     treatment |-> treatment, medicines_prescribed |-> <<>>,
     tests_prescribed |-> tests,
     doctor_reg |-> <<"K","A","/","1","2","3","4","5","/","2","0","1","5">>, patient_name |-> RajeshKumar,
     treatment_date |-> Date(2024, 5, 1)]

\* the diagnosis, procedures and tests the policy stages are exercised with
ClinicalPrescriptions ==
    { Prescription(ViralFever, <<Consultation>>, <<>>, <<>>),
      Prescription(ViralFever, <<Consultation, TeethWhiteningCosmetic>>, <<>>, <<>>),
      Prescription(ViralFever, <<>>, <<TeethWhitening, IVFCycle>>, <<>>),
      Prescription(ViralFever, <<IVFCycle, TeethWhitening>>, <<>>, <<>>),
      Prescription(ViralFever, <<CosmeticDietPlan>>, <<>>, <<>>),
      Prescription(ViralFever, <<BariatricDietPlan>>, <<>>, <<>>),
      Prescription(ViralFever, <<>>, <<>>, << <<"C","T"," ","S","c","a","n"," ","a","b","d","o","m","e","n">> >>),
      Prescription(BackPain, <<MRIScan, TeethWhitening>>, <<>>, <<>>),
      Prescription(BackPain, <<MRIScan>>, <<>>, <<>>),
      Prescription(BariatricSurgery, <<>>, <<>>, <<>>),
      Prescription(Type2Diabetes, <<Consultation>>, <<>>, <<>>),
      Prescription(DiabetesHypertension, <<Consultation>>, <<>>, <<>>),
      Prescription(CosmeticConcern, <<Consultation>>, <<>>, <<>>) }

\* prescriptions that differ in what document validation reads
DocumentPrescriptions ==
    { NoPrescription(FALSE) }
    \cup { [Prescription(d, <<Consultation>>, <<>>, <<>>) EXCEPT
                !.doctor_reg = r, !.treatment_date = t] :
           d \in {ViralFever, <<>>},
           r \in { <<"K","A","/","1","2","3","4","5","/","2","0","1","5">>, <<"A","Y","U","R","/","K","A","/","2","3","4","5","/","2","0","1","8">>, <<"k","a","/","1","2","3","4","5","/","2","0","1","5">>, <<>> },
           t \in { Date(2024, 5, 1), NoDate } }

NoBill(present) ==
    [present |-> present, items |-> <<>>, teeth_whitening |-> 0, diet_plan |-> 0,
     total_amount |-> 0, patient_name |-> <<>>, bill_date |-> NoDate,
     hospital_name |-> <<>>, test_names |-> <<>>]

Bill(items, teeth_whitening, diet_plan, total, hospital, test_names) ==
    [present |-> TRUE, items |-> items, teeth_whitening |-> teeth_whitening,
     diet_plan |-> diet_plan, total_amount |-> total,
     patient_name |-> RajeshKumar, bill_date |-> Date(2024, 5, 1),
     hospital_name |-> hospital, test_names |-> test_names]

Item(name, amount) == [name |-> name, amount |-> amount]

ItemisedBill ==
    Bill(<<Item(Consultation, 1000), Item(TeethWhitening, 2000)>>, 0, 0, 3000,
         <<"C","i","t","y"," ","C","l","i","n","i","c">>, <<>>)

SurchargeBill ==
    Bill(<<>>, 4000, 500, 12000, <<"A","p","o","l","l","o"," ","H","o","s","p","i","t","a","l","s">>, <<>>)

FullNameBill ==
    Bill(<<Item(<<"T","e","e","t","h"," ","W","h","i","t","e","n","i","n","g"," ","(","C","o","s","m","e","t","i","c",")"," ","s","e","s","s","i","o","n">>, 2000),
           Item(Consultation, 1000)>>, 0, 0, 3000, <<>>, <<>>)

TestBill ==
    Bill(<<Item(Consultation, 1000)>>, 0, 0, 1000, <<>>, << <<"M","R","I"," ","b","r","a","i","n">> >>)

ClinicalBills == {ItemisedBill, SurchargeBill, FullNameBill, TestBill}

\* bills that differ in what document validation reads
DocumentBills ==
    { NoBill(FALSE) }
    \cup { [ItemisedBill EXCEPT !.patient_name = n, !.bill_date = t] :
           n \in { <<" ","r","a","j","e","s","h"," ","K","U","M","A","R"," ">>, <<"K","u","m","a","r"," ","S","h","a","r","m","a">>, <<"P","r","i","y","a"," ","S","i","n","g","h">>, <<>> },
           t \in { Date(2024, 5, 2), Date(2024, 5, 3), Date(2024, 2, 30), NoDate } }

NoMember ==
    [present |-> FALSE, member_id |-> <<>>, member_name |-> <<>>,
     member_join_date |-> NoDate, treatment_date |-> NoDate, claim_amount |-> 0,
     previous_claims_ytd |-> 0, previous_claims_same_day |-> 0,
     claims_last_month |-> 0, hospital |-> <<>>, preauth_obtained |-> FALSE]

Member(join, treated, amount, same_day, last_month, preauth) ==
    [present |-> TRUE, member_id |-> <<"E","M","P","0","0","1">>, member_name |-> RajeshKumar,
     member_join_date |-> join, treatment_date |-> treated, claim_amount |-> amount,
     previous_claims_ytd |-> 0, previous_claims_same_day |-> same_day,
     claims_last_month |-> last_month, hospital |-> <<"F","o","r","t","i","s"," ","H","o","s","p","i","t","a","l">>,
     preauth_obtained |-> preauth]

\* (join date, treatment date): before the policy starts, on the day it
\* starts, 31 and 121 days after joining, no join date, no treatment date
Timings ==
    { <<JoinDate, Date(2023, 12, 15)>>, <<JoinDate, Date(2024, 1, 1)>>,
      <<JoinDate, Date(2024, 2, 1)>>,
      <<JoinDate, Date(2024, 5, 1)>>, <<NoDate, Date(2024, 5, 1)>>,
      <<JoinDate, NoDate>> }

ClaimAmounts == {3000, 4800, 12000}

\* every fraud and pre-authorization input with the timing that passes the
\* date gates, and the other timings with and without same-day claims
ClinicalMembers ==
    { Member(JoinDate, Date(2024, 5, 1), a, s, l, p) :
        a \in ClaimAmounts, s \in 0..MaxSameDay,
        l \in {0, MaxLastMonth}, p \in BOOLEAN }
    \cup { Member(t[1], t[2], 4800, s, 0, FALSE) :
             t \in Timings, s \in {0, MaxSameDay} }

DocumentMembers ==
    { NoMember,
      [Member(JoinDate, Date(2024, 5, 1), 3000, 0, 0, FALSE) EXCEPT !.member_id = <<>>],
      Member(JoinDate, Date(2024, 5, 1), 3000, 0, 0, FALSE),
      Member(JoinDate, Date(2024, 2, 1), 4800, MaxSameDay, MaxLastMonth, FALSE) }

\* the calls of adjudicate_claim(claim_data, member_info)
Calls ==
    (ClinicalPrescriptions \X ClinicalBills \X ClinicalMembers)
    \cup ((DocumentPrescriptions \cup {NoPrescription(TRUE)})
          \X (DocumentBills \cup {NoBill(TRUE)}) \X DocumentMembers)

NoClaim == [prescription |-> NoPrescription(FALSE), bill |-> NoBill(FALSE)]

----------------------------------------------------------------------------
(* document_processor.py                                                   *)

\* the fields of s between "/" separators
RECURSIVE SplitSlash(_)
SplitSlash(s) ==
    IF \A i \in 1..Len(s) : s[i] # "/" THEN <<s>>
    ELSE LET i == CHOOSE k \in 1..Len(s) :
                      s[k] = "/" /\ \A l \in 1..(k - 1) : s[l] # "/"
         IN  <<SubSeq(s, 1, i - 1)>> \o SplitSlash(SubSeq(s, i + 1, Len(s)))

AllUpper(s) == \A i \in 1..Len(s) : IsUpper(s[i])
AllDigits(s) == \A i \in 1..Len(s) : IsDigit(s[i])

\* `$` also matches before one trailing newline
DropFinalNewline(s) ==
    IF s # <<>> /\ s[Len(s)] = "\n" THEN SubSeq(s, 1, Len(s) - 1) ELSE s

\* ^[A-Z]{2,4}/\d{4,6}/\d{4}$
MatchesPattern1(reg) ==
    LET f == SplitSlash(DropFinalNewline(reg))
    IN  /\ Len(f) = 3
        /\ AllUpper(f[1]) /\ Len(f[1]) \in 2..4
        /\ AllDigits(f[2]) /\ Len(f[2]) \in 4..6
        /\ AllDigits(f[3]) /\ Len(f[3]) = 4

\* ^(AYUR|HOMEO|UNANI)/[A-Z]{2,4}/\d{4,6}/\d{4}$
MatchesPattern2(reg) ==
    LET f == SplitSlash(DropFinalNewline(reg))
    IN  /\ Len(f) = 4
        /\ f[1] \in { <<"A","Y","U","R">>, <<"H","O","M","E","O">>,
                      <<"U","N","A","N","I">> }
        /\ AllUpper(f[2]) /\ Len(f[2]) \in 2..4
        /\ AllDigits(f[3]) /\ Len(f[3]) \in 4..6
        /\ AllDigits(f[4]) /\ Len(f[4]) = 4

validate_doctor_registration(reg_number) ==
    IF reg_number = <<>> THEN FALSE
    ELSE MatchesPattern1(reg_number) \/ MatchesPattern2(reg_number)

\* returns the list `missing`; is_complete is missing = <<>>
\* a completeness check that looks at the prescription only
check_prescription_only(cd) ==
    IF ~cd.prescription.present THEN <<"prescription">> ELSE <<>>

check_document_completeness(cd) ==
    (IF ~cd.prescription.present THEN <<"prescription">> ELSE <<>>)
    \o (IF ~cd.bill.present THEN <<"bill">> ELSE <<>>)

----------------------------------------------------------------------------
(* adjudication_engine.py: helpers of ClaimAdjudicator                     *)

Min(a, b) == IF a <= b THEN a ELSE b
Abs(a) == IF a < 0 THEN -a ELSE a

\* names matched on half of the words of the longer name
names_match_longer(name1, name2) ==
    IF name1 = <<>> \/ name2 = <<>> THEN TRUE
    ELSE LET n1 == Strip(Lower(name1))
             n2 == Strip(Lower(name2))
             words1 == Words(n1)
             words2 == Words(n2)
             overlap == Cardinality(words1 \cap words2)
         IN  IF n1 = n2 THEN TRUE
             ELSE 2 * overlap >= Cardinality(words1) + Cardinality(words2)
                                 - Min(Cardinality(words1), Cardinality(words2))

names_match(name1, name2) ==
    IF name1 = <<>> \/ name2 = <<>> THEN TRUE
    ELSE LET n1 == Strip(Lower(name1))
             n2 == Strip(Lower(name2))
             words1 == Words(n1)
             words2 == Words(n2)
             overlap == Cardinality(words1 \cap words2)
         IN  IF n1 = n2 THEN TRUE
             \* overlap >= min(len1, len2) * 0.5
             ELSE 2 * overlap >= Min(Cardinality(words1), Cardinality(words2))

dates_match(date1, date2) ==
    IF date1 = NoDate \/ date2 = NoDate THEN TRUE
    ELSE IF ~Parseable(date1) \/ ~Parseable(date2) THEN TRUE   \* except: True
    ELSE Abs(ParseDate(date1) - ParseDate(date2)) <= 1

\* document validation that stops at the first failed check
validate_documents_first_failure(cd) ==
    IF check_document_completeness(cd) # <<>> THEN <<"MISSING_DOCUMENTS">>
    ELSE LET prescription == cd.prescription
             bill == cd.bill
         IN  IF ~validate_doctor_registration(prescription.doctor_reg)
             THEN <<"INVALID_DOCTOR_REG">>
             ELSE IF prescription.diagnosis = <<>>
             THEN <<"INVALID_PRESCRIPTION">>
             ELSE IF /\ prescription.patient_name # <<>>
                     /\ bill.patient_name # <<>>
                     /\ ~names_match(prescription.patient_name, bill.patient_name)
             THEN <<"PATIENT_MISMATCH">>
             ELSE IF /\ prescription.treatment_date # NoDate
                     /\ bill.bill_date # NoDate
                     /\ ~dates_match(prescription.treatment_date, bill.bill_date)
             THEN <<"DATE_MISMATCH">>
             ELSE <<>>

\* returns reasons; valid is reasons = <<>>
validate_documents(cd) ==
    IF check_document_completeness(cd) # <<>> THEN <<"MISSING_DOCUMENTS">>
    ELSE LET prescription == cd.prescription
             bill == cd.bill
         IN  (IF ~validate_doctor_registration(prescription.doctor_reg)
              THEN <<"INVALID_DOCTOR_REG">> ELSE <<>>)
             \o (IF prescription.diagnosis = <<>>
                 THEN <<"INVALID_PRESCRIPTION">> ELSE <<>>)
             \o (IF /\ prescription.patient_name # <<>>
                    /\ bill.patient_name # <<>>
                    /\ ~names_match(prescription.patient_name, bill.patient_name)
                 THEN <<"PATIENT_MISMATCH">> ELSE <<>>)
             \o (IF /\ prescription.treatment_date # NoDate
                    /\ bill.bill_date # NoDate
                    /\ ~dates_match(prescription.treatment_date, bill.bill_date)
                 THEN <<"DATE_MISMATCH">> ELSE <<>>)

----------------------------------------------------------------------------
(* policy_validator.py: PolicyValidator                                    *)

\* eligibility that starts the day after the effective date
check_member_eligibility_day_after(member_id, treatment_date) ==
    IF member_id = <<>>
    THEN [raised |-> FALSE, eligible |-> FALSE, reason |-> "MEMBER_NOT_FOUND"]
    ELSE IF ~Parseable(treatment_date)
    THEN [raised |-> TRUE, eligible |-> FALSE, reason |-> "None"]
    ELSE IF ParseDate(treatment_date) <= ParseDate(policy.effective_date)
    THEN [raised |-> FALSE, eligible |-> FALSE, reason |-> "POLICY_INACTIVE"]
    ELSE [raised |-> FALSE, eligible |-> TRUE, reason |-> "None"]

\* an eligibility check that looks at the treatment date only
check_member_eligibility_date_only(member_id, treatment_date) ==
    IF ~Parseable(treatment_date)
    THEN [raised |-> TRUE, eligible |-> FALSE, reason |-> "None"]
    ELSE IF ParseDate(treatment_date) < ParseDate(policy.effective_date)
    THEN [raised |-> FALSE, eligible |-> FALSE, reason |-> "POLICY_INACTIVE"]
    ELSE [raised |-> FALSE, eligible |-> TRUE, reason |-> "None"]

\* check_member_eligibility: raised is the TypeError/ValueError of a
\* treatment date that is None or not a calendar date
check_member_eligibility(member_id, treatment_date) ==
    IF member_id = <<>>
    THEN [raised |-> FALSE, eligible |-> FALSE, reason |-> "MEMBER_NOT_FOUND"]
    ELSE IF ~Parseable(treatment_date)
    THEN [raised |-> TRUE, eligible |-> FALSE, reason |-> "None"]
    ELSE IF ParseDate(treatment_date) < ParseDate(policy.effective_date)
    THEN [raised |-> FALSE, eligible |-> FALSE, reason |-> "POLICY_INACTIVE"]
    ELSE [raised |-> FALSE, eligible |-> TRUE, reason |-> "None"]

\* the specific ailments, in configuration order, that the loop returns on:
\* keyword in the diagnosis and treatment date before join date + days
UnmetAilments(join, treatment, diagnosis_lower) ==
    LET ailments == policy.waiting_periods.specific_ailments
    IN  { i \in 1..Len(ailments) :
            /\ Contains(Lower(ailments[i].ailment), diagnosis_lower)
            /\ treatment < join + ailments[i].days }

SetMin(S) == CHOOSE x \in S : \A y \in S : x <= y

\* first match wins: only the first matching ailment's period is applied,
\* and the initial waiting period only when no ailment matches
check_waiting_period_first_match(member_join_date, treatment_date, diagnosis) ==
    LET join == ParseDate(member_join_date)
        treatment == ParseDate(treatment_date)
        waiting_periods == policy.waiting_periods
        ailments == waiting_periods.specific_ailments
        matching == { i \in 1..Len(ailments) :
                        Contains(Lower(ailments[i].ailment), Lower(diagnosis)) }
        days == IF matching = {} THEN waiting_periods.initial_waiting
                ELSE ailments[SetMin(matching)].days
    IN  IF treatment < join + days
        THEN [satisfied |-> FALSE, reason |-> "WAITING_PERIOD",
              eligible_date |-> FormatDate(join + days),
              condition |-> IF matching = {} THEN <<"i","n","i","t","i","a","l">>
                            ELSE ailments[SetMin(matching)].ailment]
        ELSE [satisfied |-> TRUE, reason |-> "None",
              eligible_date |-> NoDate, condition |-> <<>>]

\* the eligible date counted from the day after the join date
check_waiting_period_day_late(member_join_date, treatment_date, diagnosis) ==
    LET join == ParseDate(member_join_date)
        treatment == ParseDate(treatment_date)
        waiting_periods == policy.waiting_periods
        unmet == UnmetAilments(join, treatment, Lower(diagnosis))
        initial_eligible == join + waiting_periods.initial_waiting
    IN  IF unmet # {}
        THEN LET a == waiting_periods.specific_ailments[SetMin(unmet)]
             IN  [satisfied |-> FALSE, reason |-> "WAITING_PERIOD",
                  eligible_date |-> FormatDate(join + a.days + 1),
                  condition |-> a.ailment]
        ELSE IF treatment < initial_eligible
        THEN [satisfied |-> FALSE, reason |-> "WAITING_PERIOD",
              eligible_date |-> FormatDate(initial_eligible + 1),
              condition |-> <<"i","n","i","t","i","a","l">>]
        ELSE [satisfied |-> TRUE, reason |-> "None",
              eligible_date |-> NoDate, condition |-> <<>>]

check_waiting_period(member_join_date, treatment_date, diagnosis) ==
    LET join == ParseDate(member_join_date)
        treatment == ParseDate(treatment_date)
        waiting_periods == policy.waiting_periods
        diagnosis_lower == Lower(diagnosis)
        unmet == UnmetAilments(join, treatment, diagnosis_lower)
        initial_eligible == join + waiting_periods.initial_waiting
    IN  IF unmet # {}
        THEN LET a == waiting_periods.specific_ailments[SetMin(unmet)]
             IN  [satisfied |-> FALSE, reason |-> "WAITING_PERIOD",
                  eligible_date |-> FormatDate(join + a.days),
                  condition |-> a.ailment]
        ELSE IF treatment < initial_eligible
        THEN [satisfied |-> FALSE, reason |-> "WAITING_PERIOD",
              eligible_date |-> FormatDate(initial_eligible),
              condition |-> <<"i","n","i","t","i","a","l">>]
        ELSE [satisfied |-> TRUE, reason |-> "None",
              eligible_date |-> NoDate, condition |-> <<>>]

\* the exclusion types (indices, in order) with a keyword in the text
MatchingTypes(exclusions, text_lower) ==
    { i \in 1..Len(exclusions) : AnyIn(exclusions[i].keywords, text_lower) }

RECURSIVE Repeat(_, _)
Repeat(x, n) == IF n = 0 THEN <<>> ELSE <<x>> \o Repeat(x, n - 1)

\* the inner loops over the treatments: each treatment is appended once for
\* each exclusion type that has a keyword in it
RECURSIVE AppendPerType(_, _)
AppendPerType(exclusions, treatments) ==
    IF treatments = <<>> THEN <<>>
    ELSE Repeat(Head(treatments),
                Cardinality(MatchingTypes(exclusions, Lower(Head(treatments)))))
         \o AppendPerType(exclusions, Tail(treatments))

RECURSIVE SetToSortedSeq(_)
SetToSortedSeq(S) ==
    IF S = {} THEN <<>> ELSE <<SetMin(S)>> \o SetToSortedSeq(S \ {SetMin(S)})

\* the buckets tested with diagnostic tests first
CategoryOfDiagnosticFirst(combined) ==
    IF AnyIn(diagnostic_keywords, combined) THEN "diagnostic_tests"
    ELSE IF AnyIn(dental_keywords, combined) THEN "dental"
    ELSE IF AnyIn(vision_keywords, combined) THEN "vision"
    ELSE IF AnyIn(alt_keywords, combined) THEN "alternative_medicine"
    ELSE "consultation_fees"

\* the first keyword bucket, in priority order, with a keyword in the text
CategoryOf(combined) ==
    IF AnyIn(dental_keywords, combined) THEN "dental"
    ELSE IF AnyIn(vision_keywords, combined) THEN "vision"
    ELSE IF AnyIn(alt_keywords, combined) THEN "alternative_medicine"
    ELSE IF AnyIn(diagnostic_keywords, combined) THEN "diagnostic_tests"
    ELSE "consultation_fees"

\* combined = diagnosis_lower + " " + treatments_str
determine_claim_category(diagnosis, treatments) ==
    CategoryOf(Lower(diagnosis) \o <<" ">> \o Lower(JoinSpace(treatments)))

\* the first treatment with an exclusion keyword decides the tier
check_coverage_first_found(diagnosis, treatments, medicines) ==
    LET in_diagnosis == MatchingTypes(primary_exclusions, Lower(diagnosis))
        hits == { i \in 1..Len(treatments) :
                    \/ MatchingTypes(primary_exclusions, Lower(treatments[i])) # {}
                    \/ MatchingTypes(secondary_exclusions, Lower(treatments[i])) # {} }
    IN  IF in_diagnosis # {}
        THEN [covered |-> FALSE,
              excluded_items |->
                  [k \in 1..Cardinality(in_diagnosis) |->
                      primary_exclusions[SetToSortedSeq(in_diagnosis)[k]].type],
              category |-> "exclusion", partial_coverage |-> FALSE]
        ELSE IF hits = {}
        THEN [covered |-> TRUE, excluded_items |-> <<>>,
              category |-> determine_claim_category(diagnosis, treatments),
              partial_coverage |-> FALSE]
        ELSE IF MatchingTypes(primary_exclusions,
                              Lower(treatments[SetMin(hits)])) # {}
        THEN [covered |-> FALSE,
              excluded_items |-> AppendPerType(primary_exclusions, treatments),
              category |-> "exclusion", partial_coverage |-> FALSE]
        ELSE [covered |-> TRUE,
              excluded_items |-> AppendPerType(secondary_exclusions, treatments),
              category |-> determine_claim_category(diagnosis, treatments),
              partial_coverage |-> TRUE]

check_coverage(diagnosis, treatments, medicines) ==
    LET diagnosis_lower == Lower(diagnosis)
        in_diagnosis == MatchingTypes(primary_exclusions, diagnosis_lower)
        primary_items == AppendPerType(primary_exclusions, treatments)
        partial_exclusions == AppendPerType(secondary_exclusions, treatments)
    IN  IF in_diagnosis # {}
        THEN [covered |-> FALSE,
              excluded_items |->
                  [k \in 1..Cardinality(in_diagnosis) |->
                      primary_exclusions[SetToSortedSeq(in_diagnosis)[k]].type],
              category |-> "exclusion", partial_coverage |-> FALSE]
        ELSE IF primary_items # <<>>
        THEN [covered |-> FALSE, excluded_items |-> primary_items,
              category |-> "exclusion", partial_coverage |-> FALSE]
        ELSE IF partial_exclusions # <<>>
        THEN [covered |-> TRUE, excluded_items |-> partial_exclusions,
              category |-> determine_claim_category(diagnosis, treatments),
              partial_coverage |-> TRUE]
        ELSE [covered |-> TRUE, excluded_items |-> <<>>,
              category |-> determine_claim_category(diagnosis, treatments),
              partial_coverage |-> FALSE]

HasSubLimit(category) ==
    category \in {"diagnostic_tests", "pharmacy", "dental", "vision",
                  "alternative_medicine"}

\* the general per-claim limit applied to every category
check_limits_per_claim_for_all(claim_amount, category, member_previous_claims) ==
    LET coverage == policy.coverage_details
        min_claim == policy.claim_requirements.minimum_claim_amount
    IN  IF claim_amount < min_claim
        THEN [within_limits |-> FALSE, limit_type |-> "BELOW_MIN_AMOUNT",
              max_allowed |-> min_claim]
        ELSE IF HasSubLimit(category) /\ claim_amount > coverage.sub_limit[category]
        THEN [within_limits |-> FALSE, limit_type |-> "SUB_LIMIT_EXCEEDED",
              max_allowed |-> coverage.sub_limit[category]]
        ELSE IF claim_amount > coverage.per_claim_limit
        THEN [within_limits |-> FALSE, limit_type |-> "PER_CLAIM_EXCEEDED",
              max_allowed |-> coverage.per_claim_limit]
        ELSE IF member_previous_claims + claim_amount > coverage.annual_limit
        THEN [within_limits |-> FALSE, limit_type |-> "ANNUAL_LIMIT_EXCEEDED",
              max_allowed |-> coverage.annual_limit - member_previous_claims]
        ELSE [within_limits |-> TRUE, limit_type |-> "None", max_allowed |-> 0]

\* limits checked without the minimum claim amount
check_limits_without_minimum(claim_amount, category, member_previous_claims) ==
    LET coverage == policy.coverage_details
    IN  IF HasSubLimit(category) /\ claim_amount > coverage.sub_limit[category]
        THEN [within_limits |-> FALSE, limit_type |-> "SUB_LIMIT_EXCEEDED",
              max_allowed |-> coverage.sub_limit[category]]
        ELSE IF ~HasSubLimit(category) /\ claim_amount > coverage.per_claim_limit
        THEN [within_limits |-> FALSE, limit_type |-> "PER_CLAIM_EXCEEDED",
              max_allowed |-> coverage.per_claim_limit]
        ELSE IF member_previous_claims + claim_amount > coverage.annual_limit
        THEN [within_limits |-> FALSE, limit_type |-> "ANNUAL_LIMIT_EXCEEDED",
              max_allowed |-> coverage.annual_limit - member_previous_claims]
        ELSE [within_limits |-> TRUE, limit_type |-> "None", max_allowed |-> 0]

check_limits(claim_amount, category, member_previous_claims) ==
    LET coverage == policy.coverage_details
        min_claim == policy.claim_requirements.minimum_claim_amount
    IN  IF claim_amount < min_claim
        THEN [within_limits |-> FALSE, limit_type |-> "BELOW_MIN_AMOUNT",
              max_allowed |-> min_claim]
        ELSE IF HasSubLimit(category) /\ claim_amount > coverage.sub_limit[category]
        THEN [within_limits |-> FALSE, limit_type |-> "SUB_LIMIT_EXCEEDED",
              max_allowed |-> coverage.sub_limit[category]]
        ELSE IF ~HasSubLimit(category) /\ claim_amount > coverage.per_claim_limit
        THEN [within_limits |-> FALSE, limit_type |-> "PER_CLAIM_EXCEEDED",
              max_allowed |-> coverage.per_claim_limit]
        ELSE IF member_previous_claims + claim_amount > coverage.annual_limit
        THEN [within_limits |-> FALSE, limit_type |-> "ANNUAL_LIMIT_EXCEEDED",
              max_allowed |-> coverage.annual_limit - member_previous_claims]
        ELSE [within_limits |-> TRUE, limit_type |-> "None", max_allowed |-> 0]

Max(a, b) == IF a >= b THEN a ELSE b

\* the network discount added to the copay instead of including it
calculate_copay_additive(claim_amount, category, is_network) ==
    LET cfg == policy.coverage_details.consultation_fees
        copay_amount ==
            IF category = "consultation_fees"
            THEN claim_amount * cfg.copay_percentage ELSE 0
        discount_amount ==
            IF category = "consultation_fees" /\ is_network
            THEN claim_amount * cfg.network_discount ELSE 0
    IN  [copay_amount |-> copay_amount,
         discount |-> discount_amount,
         net_payable |-> claim_amount * 100 - copay_amount - discount_amount]

\* amounts returned in paise: round(rupees, 2) * 100.  With whole rupees and
\* whole percentages every product below is a whole number of paise.
calculate_copay(claim_amount, category, is_network) ==
    LET cfg == policy.coverage_details.consultation_fees
        copay_amount ==
            IF category = "consultation_fees"
            THEN claim_amount * cfg.copay_percentage ELSE 0
        discount_amount ==
            IF category = "consultation_fees" /\ is_network
            THEN claim_amount * Max(cfg.network_discount - cfg.copay_percentage, 0)
            ELSE 0
    IN  [copay_amount |-> copay_amount,
         discount |-> discount_amount,
         net_payable |-> claim_amount * 100 - copay_amount - discount_amount]

requires_preauth(treatments, tests) ==
    \/ \E i \in 1..Len(tests) : AnyIn(preauth_tests, Lower(tests[i]))
    \/ \E i \in 1..Len(treatments) : AnyIn(preauth_tests, Lower(treatments[i]))

----------------------------------------------------------------------------
(* adjudication_engine.py: ClaimAdjudicator                                *)

is_network_hospital(hospital_name) ==
    IF hospital_name = <<>> THEN FALSE
    ELSE \E i \in 1..Len(network_hospitals) :
            Contains(Lower(network_hospitals[i]), Lower(hospital_name))

RECURSIVE SumOver(_, _)
\* sum of f[x] for x in the finite set S
SumOver(f, S) ==
    IF S = {} THEN 0
    ELSE LET x == CHOOSE y \in S : TRUE IN f[x] + SumOver(f, S \ {x})

calculate_excluded_amount(bill, excluded_items) ==
    IF ~bill.present \/ excluded_items = <<>> THEN 0
    ELSE LET pairs == (1..Len(bill.items)) \X (1..Len(excluded_items))
             \* the item's amount, once for each excluded entry in its name
             item_hit == [p \in pairs |->
                 IF Contains(Lower(excluded_items[p[2]]), Lower(bill.items[p[1]].name))
                 THEN bill.items[p[1]].amount ELSE 0]
             \* the surcharge fields, once for each excluded entry naming them
             charge == [e \in 1..Len(excluded_items) |->
                 LET excluded_lower == Lower(excluded_items[e]) IN
                 (IF AnyIn(whitening_keywords, excluded_lower)
                  THEN bill.teeth_whitening ELSE 0)
                 + (IF AnyIn(diet_keywords, excluded_lower)
                    THEN bill.diet_plan ELSE 0)]
         IN  SumOver(item_hit, pairs) + SumOver(charge, 1..Len(excluded_items))

\* a score that adds the 0.3 of two same-day claims to the 0.5 of three
fraud_indicators_cumulative(cd, mi) ==
    IF ~mi.present THEN 0
    ELSE LET same_day_claims == mi.previous_claims_same_day
             score == (IF same_day_claims >= 3 THEN 5 ELSE 0)
                      + (IF same_day_claims >= 2 THEN 3 ELSE 0)
                      + (IF mi.claims_last_month >= 5 THEN 3 ELSE 0)
                      + (IF mi.claim_amount > 4500 THEN 1 ELSE 0)
         IN  Min(score, 10)

\* a score that weighs a high claim amount like a high claim frequency
fraud_indicators_amount_as_frequency(cd, mi) ==
    IF ~mi.present THEN 0
    ELSE LET same_day_claims == mi.previous_claims_same_day
             score == (IF same_day_claims >= 3 THEN 5
                       ELSE IF same_day_claims >= 2 THEN 3 ELSE 0)
                      + (IF mi.claims_last_month >= 5 THEN 3 ELSE 0)
                      + (IF mi.claim_amount > 4500 THEN 3 ELSE 0)
         IN  Min(score, 10)

\* fraud score in tenths
check_fraud_indicators(cd, mi) ==
    IF ~mi.present THEN 0
    ELSE LET same_day_claims == mi.previous_claims_same_day
             score == (IF same_day_claims >= 3 THEN 5
                       ELSE IF same_day_claims >= 2 THEN 3 ELSE 0)
                      + (IF mi.claims_last_month >= 5 THEN 3 ELSE 0)
                      + (IF mi.claim_amount > 4500 THEN 1 ELSE 0)
         IN  Min(score, 10)

NoDeductions == [given |-> FALSE, copay |-> 0, discount |-> 0]

NoNotes == [msg |-> "", condition |-> <<>>, eligible_date |-> NoDate,
            items |-> <<>>, limit_type |-> "None", max_allowed |-> 0,
            excluded_amount |-> 0, category |-> "None"]

\* the decision dictionary built at the start of adjudicate_claim; the keys
\* rejected_items and network_discount are absent until a stage adds them
NewDecision ==
    [claim_id |-> 0, decision |-> "PENDING", approved_amount |-> 0, rejection_reasons |-> <<>>,
     flags |-> <<>>, confidence_score |-> 0, notes |-> NoNotes,
     deductions |-> NoDeductions,
     has_rejected_items |-> FALSE, rejected_items |-> <<>>,
     has_network_discount |-> FALSE, network_discount |-> 0]

\* the local variables of adjudicate_claim, before they are assigned
NoCoverage == [covered |-> TRUE, excluded_items |-> <<>>, category |-> "None",
               partial_coverage |-> FALSE]

NoWaitingCheck == [satisfied |-> TRUE, reason |-> "None",
                   eligible_date |-> NoDate, condition |-> <<>>]

NoLimitCheck == [within_limits |-> TRUE, limit_type |-> "None", max_allowed |-> 0]

NewContext ==
    [member_id |-> <<>>, treatment_date |-> NoDate, claim_amount |-> 0,
     treatments |-> <<>>, tests |-> <<>>,
     coverage_check |-> NoCoverage, category |-> "None",
     waiting_check |-> NoWaitingCheck, limit_check |-> NoLimitCheck,
     approved_claim_amount |-> 0, excluded_amount |-> 0, fraud_score |-> 0,
     now |-> 0]

\* the stages with pre-authorization run before fraud detection
StageOrderPreAuthFirst ==
    <<"documents", "eligibility", "waiting", "coverage", "exclusions", "preauth",
      "fraud", "limits", "final">>

\* the order of the stages of adjudicate_claim
StageOrder ==
    <<"documents", "eligibility", "waiting", "coverage", "exclusions", "fraud",
      "preauth", "limits", "final">>

\* where control goes when a stage does not return
After(stage) ==
    LET i == CHOOSE k \in 1..Len(StageOrder) : StageOrder[k] = stage
    IN  IF i = Len(StageOrder) THEN "returned" ELSE StageOrder[i + 1]

\* a or b  (Python: the first operand unless it is empty)
OrElse(a, b) == IF a # <<>> THEN a ELSE b

\* Step 1: document validation; then the key information is extracted
ValidateDocuments ==
    /\ pc = "documents"
    /\ \E reasons \in {validate_documents(claim_data)} :
       LET prescription == claim_data.prescription
           bill == claim_data.bill
       IN  IF reasons # <<>>
           THEN /\ decision' = [decision EXCEPT
                       !.decision = "REJECTED",
                       !.rejection_reasons = reasons,
                       !.confidence_score = 100,
                       !.notes = [NoNotes EXCEPT !.msg = "Document validation failed"]]
                /\ pc' = "returned"
                /\ ctx' = ctx
           ELSE /\ ctx' = [ctx EXCEPT
                       !.member_id = IF member_info.present
                                     THEN member_info.member_id ELSE <<>>,
                       !.treatment_date = IF member_info.present
                                          THEN member_info.treatment_date
                                          ELSE prescription.treatment_date,
                       !.claim_amount = IF member_info.present
                                        THEN member_info.claim_amount
                                        ELSE bill.total_amount]
                /\ pc' = After("documents")
                /\ decision' = decision
    /\ UNCHANGED <<policy, claim_data, member_info, validator_call,
                 waiting_frame, clock, service_vars>>

\* an eligibility check that records the reason of an ineligible member and
\* returns without setting the state of the decision
CheckEligibilityLeavingState ==
    /\ pc = "eligibility"
    /\ \E eligibility \in
           {check_member_eligibility(ctx.member_id, ctx.treatment_date)} :
           IF eligibility.raised
           THEN pc' = "raised" /\ decision' = decision
           ELSE IF ~eligibility.eligible
           THEN /\ decision' = [decision EXCEPT
                       !.rejection_reasons = Append(@, eligibility.reason),
                       !.confidence_score = 98,
                       !.notes = [NoNotes EXCEPT !.msg = "Member eligibility check failed"]]
                /\ pc' = "returned"
           ELSE pc' = After("eligibility") /\ decision' = decision
    /\ UNCHANGED <<policy, claim_data, member_info, ctx, validator_call,
                 waiting_frame, clock, service_vars>>

\* Step 2: eligibility check
CheckEligibility ==
    /\ pc = "eligibility"
    /\ \E eligibility \in
           {check_member_eligibility(ctx.member_id, ctx.treatment_date)} :
           IF eligibility.raised
           THEN pc' = "raised" /\ decision' = decision
           ELSE IF ~eligibility.eligible
           THEN /\ decision' = [decision EXCEPT
                       !.decision = "REJECTED",
                       !.rejection_reasons = Append(@, eligibility.reason),
                       !.confidence_score = 98,
                       !.notes = [NoNotes EXCEPT !.msg = "Member eligibility check failed"]]
                /\ pc' = "returned"
           ELSE pc' = After("eligibility") /\ decision' = decision
    /\ UNCHANGED <<policy, claim_data, member_info, ctx, validator_call,
                 waiting_frame, clock, service_vars>>

\* Step 3: waiting period check, only with a join date
CheckWaitingPeriod ==
    /\ pc = "waiting"
    /\ IF member_info.present /\ member_info.member_join_date # NoDate
       THEN IF ~Parseable(member_info.member_join_date)
            THEN pc' = "raised" /\ UNCHANGED <<decision, ctx>>
            ELSE \E waiting_check \in
                         {check_waiting_period(member_info.member_join_date,
                                               ctx.treatment_date,
                                               claim_data.prescription.diagnosis)} :
                     /\ ctx' = [ctx EXCEPT !.waiting_check = waiting_check]
                     /\ IF ~waiting_check.satisfied
                        THEN /\ decision' = [decision EXCEPT
                                    !.decision = "REJECTED",
                                    !.rejection_reasons = Append(@, "WAITING_PERIOD"),
                                    !.confidence_score = 96,
                                    !.notes = [NoNotes EXCEPT
                                        !.msg = "has waiting period. Eligible from",
                                        !.condition = waiting_check.condition,
                                        !.eligible_date = waiting_check.eligible_date]]
                             /\ pc' = "returned"
                        ELSE pc' = After("waiting") /\ decision' = decision
       ELSE pc' = After("waiting") /\ UNCHANGED <<decision, ctx>>
    /\ UNCHANGED <<policy, claim_data, member_info, validator_call,
                 waiting_frame, clock, service_vars>>

\* Step 4: coverage verification; a full exclusion rejects
VerifyCoverage ==
    /\ pc = "coverage"
    /\ LET prescription == claim_data.prescription
           bill == claim_data.bill
           diagnosis == prescription.diagnosis
           treatments == OrElse(prescription.procedures, prescription.treatment)
           medicines == prescription.medicines_prescribed
           tests == OrElse(prescription.tests_prescribed, bill.test_names)
       IN  \E coverage_check \in {check_coverage(diagnosis, treatments, medicines)} :
           /\ ctx' = [ctx EXCEPT !.treatments = treatments, !.tests = tests,
                                 !.coverage_check = coverage_check,
                                 !.category = coverage_check.category]
           /\ IF ~coverage_check.covered /\ ~coverage_check.partial_coverage
              THEN /\ decision' = [decision EXCEPT
                          !.decision = "REJECTED",
                          !.rejection_reasons = Append(@, "SERVICE_NOT_COVERED"),
                          !.confidence_score = 97,
                          !.notes = [NoNotes EXCEPT
                              !.msg = "Treatment/service not covered under policy:",
                              !.items = coverage_check.excluded_items]]
                   /\ pc' = "returned"
              ELSE pc' = After("coverage") /\ decision' = decision
    /\ UNCHANGED <<policy, claim_data, member_info, validator_call,
                 waiting_frame, clock, service_vars>>

\* the exclusions step marking the claim PARTIAL only when it deducts
ComputeExclusionsWhenDeducted ==
    /\ pc = "exclusions"
    /\ LET excluded_items == ctx.coverage_check.excluded_items IN
       \E excluded_amount \in
           {calculate_excluded_amount(claim_data.bill, excluded_items)} :
           IF excluded_items # <<>> /\ excluded_amount > 0
           THEN /\ ctx' = [ctx EXCEPT
                       !.excluded_amount = excluded_amount,
                       !.approved_claim_amount = ctx.claim_amount - excluded_amount]
                /\ decision' = [decision EXCEPT
                       !.decision = "PARTIAL",
                       !.has_rejected_items = TRUE,
                       !.rejected_items = excluded_items,
                       !.flags = Append(@, "Contains excluded items")]
           ELSE /\ ctx' = [ctx EXCEPT
                       !.excluded_amount = 0,
                       !.approved_claim_amount = ctx.claim_amount]
                /\ decision' = decision
    /\ pc' = After("exclusions")
    /\ UNCHANGED <<policy, claim_data, member_info, validator_call,
                 waiting_frame, clock, service_vars>>

\* Step 5: the approved claim amount, before fraud, pre-authorization, limits
ComputeExclusions ==
    /\ pc = "exclusions"
    /\ LET excluded_items == ctx.coverage_check.excluded_items IN
       \E excluded_amount \in
           {calculate_excluded_amount(claim_data.bill, excluded_items)} :
           IF excluded_items # <<>>
           THEN /\ ctx' = [ctx EXCEPT
                       !.excluded_amount = excluded_amount,
                       !.approved_claim_amount = ctx.claim_amount - excluded_amount]
                /\ decision' = [decision EXCEPT
                       !.decision = "PARTIAL",
                       !.has_rejected_items = TRUE,
                       !.rejected_items = excluded_items,
                       !.flags = Append(@, "Contains excluded items")]
           ELSE /\ ctx' = [ctx EXCEPT
                       !.excluded_amount = 0,
                       !.approved_claim_amount = ctx.claim_amount]
                /\ decision' = decision
    /\ pc' = After("exclusions")
    /\ UNCHANGED <<policy, claim_data, member_info, validator_call,
                 waiting_frame, clock, service_vars>>

\* flags that name a same-day trigger only from three claims on
manual_review_flags_from_three(flags, mi) ==
    (IF mi.present /\ mi.previous_claims_same_day >= 3
     THEN Append(flags, "Multiple claims same day") ELSE flags)
    \o <<"Unusual pattern detected">>

\* the flags of a MANUAL_REVIEW decision that drops the flags set before it
manual_review_flags_dropping(flags, mi) ==
    IF mi.present /\ mi.previous_claims_same_day >= 2
    THEN <<"Multiple claims same day", "Unusual pattern detected">>
    ELSE <<"Unusual pattern detected">>

\* the flags of a MANUAL_REVIEW decision: decision['flags'].append(...)
manual_review_flags(flags, mi) ==
    (IF mi.present /\ mi.previous_claims_same_day >= 2
     THEN Append(flags, "Multiple claims same day") ELSE flags)
    \o <<"Unusual pattern detected">>

\* Step 6: fraud detection
DetectFraud ==
    /\ pc = "fraud"
    /\ \E fraud_score \in {check_fraud_indicators(claim_data, member_info)} :
           /\ ctx' = [ctx EXCEPT !.fraud_score = fraud_score]
           /\ IF fraud_score > 5
              THEN /\ decision' = [decision EXCEPT
                          !.decision = "MANUAL_REVIEW",
                          !.flags = manual_review_flags(@, member_info),
                          !.confidence_score = 65,
                          !.notes = [NoNotes EXCEPT !.msg =
                              "Flagged for manual review due to unusual patterns"]]
                   /\ pc' = "returned"
              ELSE pc' = After("fraud") /\ decision' = decision
    /\ UNCHANGED <<policy, claim_data, member_info, validator_call,
                 waiting_frame, clock, service_vars>>

\* the pre-authorization check on the raw claim amount
CheckPreAuthorizationRawAmount ==
    /\ pc = "preauth"
    /\ IF /\ requires_preauth(ctx.treatments, ctx.tests)
          /\ (~member_info.present \/ ~member_info.preauth_obtained)
          /\ ctx.claim_amount > 10000
       THEN /\ decision' = [decision EXCEPT
                   !.decision = "REJECTED",
                   !.rejection_reasons = Append(@, "PRE_AUTH_MISSING"),
                   !.confidence_score = 94,
                   !.notes = [NoNotes EXCEPT !.msg =
                       "Pre-authorization required for MRI/CT scans above 10000"]]
            /\ pc' = "returned"
       ELSE pc' = After("preauth") /\ decision' = decision
    /\ UNCHANGED <<policy, claim_data, member_info, ctx, validator_call,
                 waiting_frame, clock, service_vars>>

\* Step 7: pre-authorization check, on the approved claim amount
CheckPreAuthorization ==
    /\ pc = "preauth"
    /\ IF /\ requires_preauth(ctx.treatments, ctx.tests)
          /\ (~member_info.present \/ ~member_info.preauth_obtained)
          /\ ctx.approved_claim_amount > 10000
       THEN /\ decision' = [decision EXCEPT
                   !.decision = "REJECTED",
                   !.rejection_reasons = Append(@, "PRE_AUTH_MISSING"),
                   !.confidence_score = 94,
                   !.notes = [NoNotes EXCEPT !.msg =
                       "Pre-authorization required for MRI/CT scans above 10000"]]
            /\ pc' = "returned"
       ELSE pc' = After("preauth") /\ decision' = decision
    /\ UNCHANGED <<policy, claim_data, member_info, ctx, validator_call,
                 waiting_frame, clock, service_vars>>

\* limit validation that books the approved amount against the annual limit
\* of the loaded policy
ValidateLimitsConsuming ==
    /\ pc = "limits"
    /\ LET previous_claims ==
               IF member_info.present THEN member_info.previous_claims_ytd ELSE 0
       IN  \E limit_check \in
               {check_limits(ctx.approved_claim_amount, ctx.category, previous_claims)} :
           /\ ctx' = [ctx EXCEPT !.limit_check = limit_check]
           /\ IF ~limit_check.within_limits
              THEN /\ decision' = [decision EXCEPT
                          !.decision = "REJECTED",
                          !.rejection_reasons = Append(@, limit_check.limit_type),
                          !.confidence_score = 98,
                          !.notes = [NoNotes EXCEPT
                              !.msg = IF ctx.excluded_amount > 0
                                      THEN "Even after excluding, remaining claim exceeds"
                                      ELSE "Claim exceeds",
                              !.excluded_amount = ctx.excluded_amount,
                              !.limit_type = limit_check.limit_type,
                              !.max_allowed = limit_check.max_allowed]]
                   /\ pc' = "returned"
                   /\ policy' = policy
              ELSE /\ pc' = After("limits") /\ decision' = decision
                   /\ policy' = [policy EXCEPT !.coverage_details.annual_limit =
                                     @ - ctx.approved_claim_amount]
    /\ UNCHANGED <<claim_data, member_info, validator_call, waiting_frame, clock, service_vars>>

\* a limit validation that rejects the claim and approves the amount the
\* limit allows
ValidateLimitsApprovingMaximum ==
    /\ pc = "limits"
    /\ LET previous_claims ==
               IF member_info.present THEN member_info.previous_claims_ytd ELSE 0
       IN  \E limit_check \in
               {check_limits(ctx.approved_claim_amount, ctx.category, previous_claims)} :
           /\ ctx' = [ctx EXCEPT !.limit_check = limit_check]
           /\ IF ~limit_check.within_limits
              THEN /\ decision' = [decision EXCEPT
                          !.decision = "REJECTED",
                          !.approved_amount = limit_check.max_allowed,
                          !.rejection_reasons = Append(@, limit_check.limit_type),
                          !.confidence_score = 98,
                          !.notes = [NoNotes EXCEPT
                              !.msg = IF ctx.excluded_amount > 0
                                      THEN "Even after excluding, remaining claim exceeds"
                                      ELSE "Claim exceeds",
                              !.excluded_amount = ctx.excluded_amount,
                              !.limit_type = limit_check.limit_type,
                              !.max_allowed = limit_check.max_allowed]]
                   /\ pc' = "returned"
              ELSE pc' = After("limits") /\ decision' = decision
    /\ UNCHANGED <<policy, claim_data, member_info, validator_call,
                 waiting_frame, clock, service_vars>>

\* Step 8: limit validation, on the approved claim amount
ValidateLimits ==
    /\ pc = "limits"
    /\ LET previous_claims ==
               IF member_info.present THEN member_info.previous_claims_ytd ELSE 0
       IN  \E limit_check \in
               {check_limits(ctx.approved_claim_amount, ctx.category, previous_claims)} :
           /\ ctx' = [ctx EXCEPT !.limit_check = limit_check]
           /\ IF ~limit_check.within_limits
              THEN /\ decision' = [decision EXCEPT
                          !.decision = "REJECTED",
                          !.rejection_reasons = Append(@, limit_check.limit_type),
                          !.confidence_score = 98,
                          !.notes = [NoNotes EXCEPT
                              !.msg = IF ctx.excluded_amount > 0
                                      THEN "Even after excluding, remaining claim exceeds"
                                      ELSE "Claim exceeds",
                              !.excluded_amount = ctx.excluded_amount,
                              !.limit_type = limit_check.limit_type,
                              !.max_allowed = limit_check.max_allowed]]
                   /\ pc' = "returned"
              ELSE pc' = After("limits") /\ decision' = decision
    /\ UNCHANGED <<policy, claim_data, member_info, validator_call,
                 waiting_frame, clock, service_vars>>

\* the final step promoting every claim that reaches it to APPROVED
ComputeFinalAmountPromoting ==
    /\ pc = "final"
    /\ IF claim_data.bill.hospital_name = <<>> /\ ~member_info.present
       THEN pc' = "raised" /\ decision' = decision
       ELSE LET hospital_name == OrElse(claim_data.bill.hospital_name,
                                        member_info.hospital)
                is_network == is_network_hospital(hospital_name)
            IN  \E copay_calc \in {calculate_copay(ctx.approved_claim_amount,
                                                   ctx.category, is_network)} :
                /\ decision' = [decision EXCEPT
                       !.approved_amount = copay_calc.net_payable,
                       !.deductions = [given |-> TRUE,
                                       copay |-> copay_calc.copay_amount,
                                       discount |-> copay_calc.discount],
                       !.has_network_discount = (copay_calc.discount > 0),
                       !.network_discount = IF copay_calc.discount > 0
                                            THEN copay_calc.discount ELSE 0,
                       !.decision = "APPROVED",
                       !.confidence_score = 95,
                       !.notes = [NoNotes EXCEPT
                           !.msg = "Claim processed successfully. Category:",
                           !.category = ctx.category]]
                /\ pc' = After("final")
    /\ UNCHANGED <<policy, claim_data, member_info, ctx, validator_call,
                 waiting_frame, clock, service_vars>>

\* Step 9: the final amount and the final decision
ComputeFinalAmount ==
    /\ pc = "final"
    /\ IF claim_data.bill.hospital_name = <<>> /\ ~member_info.present
       THEN pc' = "raised" /\ decision' = decision   \* None.get: AttributeError
       ELSE LET hospital_name == OrElse(claim_data.bill.hospital_name,
                                        member_info.hospital)
                is_network == is_network_hospital(hospital_name)
            IN  \E copay_calc \in {calculate_copay(ctx.approved_claim_amount,
                                                   ctx.category, is_network)} :
                /\ decision' = [decision EXCEPT
                       !.approved_amount = copay_calc.net_payable,
                       !.deductions = [given |-> TRUE,
                                       copay |-> copay_calc.copay_amount,
                                       discount |-> copay_calc.discount],
                       !.has_network_discount = (copay_calc.discount > 0),
                       !.network_discount = IF copay_calc.discount > 0
                                            THEN copay_calc.discount ELSE 0,
                       !.decision = IF @ # "PARTIAL" THEN "APPROVED" ELSE @,
                       !.confidence_score = IF decision.decision # "PARTIAL"
                                            THEN 95 ELSE 92,
                       !.notes = [NoNotes EXCEPT
                           !.msg = "Claim processed successfully. Category:",
                           !.category = ctx.category]]
                /\ pc' = After("final")
    /\ UNCHANGED <<policy, claim_data, member_info, ctx, validator_call,
                 waiting_frame, clock, service_vars>>

----------------------------------------------------------------------------
(* PolicyValidator methods called on their own                             *)

\* the amounts, categories and prior-year totals check_limits is called with
LimitAmounts == {499, 500, 5000, 5001, 6000, 10001, 15001, 20001, 50001}

LimitCategories ==
    {"consultation_fees", "diagnostic_tests", "pharmacy", "dental", "vision",
     "alternative_medicine", "exclusion"}

PreviousTotals == {0, 45000, 50000}

\* the amounts calculate_copay is called with
CopayAmounts == {0, 1000, 3000, 4999}

\* the texts determine_claim_category is called with
ToothDecay == <<"T", "o", "o", "t", "h", " ", "d", "e", "c", "a", "y">>
EyeStrain == <<"E", "y", "e", " ", "s", "t", "r", "a", "i", "n">>
Chronic == <<"C", "h", "r", "o", "n", "i", "c">>
LowerBackPain == <<"L", "o", "w", "e", "r", " ", "b", "a", "c", "k", " ", "p", "a", "i", "n">>
RootCanal == <<"R", "o", "o", "t", " ", "c", "a", "n", "a", "l">>
Lasik == <<"L", "A", "S", "I", "K">>
PanchakarmaTherapy == <<"P", "a", "n", "c", "h", "a", "k", "a", "r", "m", "a", " ", "t", "h", "e", "r", "a", "p", "y">>
DentalFilling == <<"D", "e", "n", "t", "a", "l", " ", "f", "i", "l", "l", "i", "n", "g">>
JointPain == <<"j", "o", "i", "n", "t", " ", "p", "a", "i", "n">>

CategoryDiagnoses == {<<>>, ToothDecay, EyeStrain, Chronic, LowerBackPain}

CategoryTreatments ==
    { <<>>, <<Consultation>>, <<RootCanal>>, <<Lasik>>, <<PanchakarmaTherapy>>,
      <<MRIScan>>, <<MRIScan, DentalFilling>>, <<JointPain>>,
      << <<"C", "T">>, <<"s", "c", "a", "n">> >> }

\* the last call of a validator method and what it returned
NoValidatorCall ==
    [method |-> "None", amount |-> 0, category |-> "None", previous |-> 0,
     is_network |-> FALSE, diagnosis |-> <<>>, treatments |-> <<>>,
     limits |-> NoLimitCheck,
     copay |-> [copay_amount |-> 0, discount |-> 0, net_payable |-> 0],
     claim_category |-> "None",
     name1 |-> <<>>, name2 |-> <<>>, names_match |-> TRUE]

\* policy_validator.check_limits(claim_amount, category, previous_claims)
CallCheckLimits ==
    /\ pc = "idle"
    /\ \E a \in LimitAmounts, c \in LimitCategories, p \in PreviousTotals :
          validator_call' = [NoValidatorCall EXCEPT
              !.method = "check_limits", !.amount = a, !.category = c,
              !.previous = p, !.limits = check_limits(a, c, p)]
    /\ pc' = "answered"
    /\ UNCHANGED <<policy, claim_data, member_info, decision, ctx,
                 waiting_frame, clock, service_vars>>

\* policy_validator.calculate_copay(claim_amount, category, is_network)
CallCalculateCopay ==
    /\ pc = "idle"
    /\ \E a \in CopayAmounts, c \in LimitCategories, n \in BOOLEAN :
          validator_call' = [NoValidatorCall EXCEPT
              !.method = "calculate_copay", !.amount = a, !.category = c,
              !.is_network = n, !.copay = calculate_copay(a, c, n)]
    /\ pc' = "answered"
    /\ UNCHANGED <<policy, claim_data, member_info, decision, ctx,
                 waiting_frame, clock, service_vars>>

\* policy_validator.determine_claim_category(diagnosis, treatments)
CallDetermineClaimCategory ==
    /\ pc = "idle"
    /\ \E d \in CategoryDiagnoses, t \in CategoryTreatments :
          validator_call' = [NoValidatorCall EXCEPT
              !.method = "determine_claim_category", !.diagnosis = d,
              !.treatments = t,
              !.claim_category = determine_claim_category(d, t)]
    /\ pc' = "answered"
    /\ UNCHANGED <<policy, claim_data, member_info, decision, ctx,
                 waiting_frame, clock, service_vars>>

\* the names _names_match is called with: missing, blank, different case and
\* padding, one to four words, a repeated word
PatientNames ==
    { <<>>, <<" ", " ">>, RajeshKumar, <<" ", "r", "a", "j", "e", "s", "h", " ", "K", "U", "M", "A", "R", " ">>,
      <<"R", "a", "j", "e", "s", "h">>, <<"R", " ", "K", "u", "m", "a", "r">>,
      <<"K", "u", "m", "a", "r", " ", "S", "h", "a", "r", "m", "a">>, <<"P", "r", "i", "y", "a", " ", "S", "i", "n", "g", "h">>,
      <<"R", "a", "j", "e", "s", "h", " ", "K", "u", "m", "a", "r", " ", "S", "h", "a", "r", "m", "a", " ", "R", "a", "o">>,
      <<"R", "a", "o", " ", "R", "a", "o", " ", "R", "a", "o", " ", "P", "r", "i", "y", "a">> }

\* adjudicator._names_match(name1, name2)
CallNamesMatch ==
    /\ pc = "idle"
    /\ \E n1 \in PatientNames, n2 \in PatientNames :
          validator_call' = [NoValidatorCall EXCEPT
              !.method = "names_match", !.name1 = n1, !.name2 = n2,
              !.names_match = names_match(n1, n2)]
    /\ pc' = "answered"
    /\ UNCHANGED <<policy, claim_data, member_info, decision, ctx,
                 waiting_frame, clock, service_vars>>

----------------------------------------------------------------------------
(* main.py: upload_documents and its temporary files.  A request runs to   *)
(* its end before the next one starts (the handler has no await).  The     *)
(* database, the OCR and the file system are the environment: each call of *)
(* them returns or raises.                                                 *)

\* the upload requests followed
MaxUploads == 2

DocumentKinds == {"prescription", "bill", "test_report"}

\* the temporary file of the current request for one uploaded document
TempFile(kind) == <<upload_no, kind>>

\* no request is being handled, the temporary directory is empty
UploadInit ==
    /\ upload_pc = "idle"
    /\ upload_no = 0
    /\ has_test_report = FALSE
    /\ saved_paths = {}
    /\ temp_files = {}
    /\ disk = {}
    /\ upload_status = 0

\* POST /api/v1/claims/upload arrives: temp_files = []
UploadDocuments ==
    /\ upload_pc = "idle"
    /\ upload_no < MaxUploads
    /\ upload_no' = upload_no + 1
    /\ has_test_report' \in BOOLEAN
    /\ saved_paths' = {}
    /\ temp_files' = {}
    /\ upload_status' = 0
    /\ upload_pc' = "lookup"
    /\ UNCHANGED <<adjudicator_vars, register_vars, disk>>

\* an exception or HTTPException leaves the try block: the response status
\* is set and the finally block runs
UploadFails(status) ==
    /\ upload_status' = status
    /\ upload_pc' = "cleanup"

\* the member is looked up: found, not found (HTTPException 404), or the
\* database call raises (HTTPException 500)
LookupMember ==
    /\ upload_pc = "lookup"
    /\ \/ upload_pc' = "save_prescription" /\ upload_status' = upload_status
       \/ UploadFails(404)
       \/ UploadFails(500)
    /\ UNCHANGED <<adjudicator_vars, register_vars, upload_no, has_test_report, saved_paths,
                   temp_files, disk>>

\* save_upload_file(upload_file) for one document: the file is written and
\* its name returned; or splitext or NamedTemporaryFile raises and no file
\* exists; or copyfileobj raises after NamedTemporaryFile(delete=False)
\* created the file, which stays on disk
save_upload_file(kind, outcome) ==
    /\ disk' = IF outcome = "failed_before_create" THEN disk
               ELSE disk \cup {TempFile(kind)}
    /\ saved_paths' = IF outcome = "saved" THEN saved_paths \cup {TempFile(kind)}
                      ELSE saved_paths

SaveOutcomes == {"saved", "failed_before_create", "failed_after_create"}

\* prescription_path = save_upload_file(prescription)
SavePrescription ==
    /\ upload_pc = "save_prescription"
    /\ \E outcome \in SaveOutcomes :
          /\ save_upload_file("prescription", outcome)
          /\ IF outcome = "saved"
             THEN upload_pc' = "save_bill" /\ upload_status' = upload_status
             ELSE UploadFails(500)
    /\ UNCHANGED <<adjudicator_vars, register_vars, upload_no, has_test_report, temp_files>>

\* bill_path = save_upload_file(bill); temp_files.extend([prescription_path,
\* bill_path])
SaveBill ==
    /\ upload_pc = "save_bill"
    /\ \E outcome \in SaveOutcomes :
          /\ save_upload_file("bill", outcome)
          /\ IF outcome = "saved"
             THEN /\ temp_files' = temp_files
                                   \cup {TempFile("prescription"), TempFile("bill")}
                  /\ upload_pc' = IF has_test_report THEN "save_test_report"
                                  ELSE "process"
                  /\ upload_status' = upload_status
             ELSE /\ temp_files' = temp_files
                  /\ UploadFails(500)
    /\ UNCHANGED <<adjudicator_vars, register_vars, upload_no, has_test_report>>

\* if test_report: test_report_path = save_upload_file(test_report);
\* temp_files.append(test_report_path)
SaveTestReport ==
    /\ upload_pc = "save_test_report"
    /\ \E outcome \in SaveOutcomes :
          /\ save_upload_file("test_report", outcome)
          /\ IF outcome = "saved"
             THEN /\ temp_files' = temp_files \cup {TempFile("test_report")}
                  /\ upload_pc' = "process"
                  /\ upload_status' = upload_status
             ELSE /\ temp_files' = temp_files
                  /\ UploadFails(500)
    /\ UNCHANGED <<adjudicator_vars, register_vars, upload_no, has_test_report>>

\* a step of the try block after the files are saved: it returns and the
\* request goes on, or it raises (HTTPException 500)
UploadStep(from, to) ==
    /\ upload_pc = from
    /\ \/ upload_pc' = to /\ upload_status' = upload_status
       \/ UploadFails(500)
    /\ UNCHANGED <<adjudicator_vars, register_vars, upload_no, has_test_report, saved_paths,
                   temp_files, disk>>

\* claim_data = process_claim_documents(document_paths)
ProcessDocuments == UploadStep("process", "adjudicate")

\* decision = adjudicator.adjudicate_claim(claim_data, member_adj_info)
AdjudicateUpload == UploadStep("adjudicate", "store")

\* the claim, its details, the upload records and the audit entry are
\* inserted and the success response is built
StoreClaim ==
    /\ upload_pc = "store"
    /\ \/ upload_status' = 200 /\ upload_pc' = "cleanup"
       \/ UploadFails(500)
    /\ UNCHANGED <<adjudicator_vars, register_vars, upload_no, has_test_report, saved_paths,
                   temp_files, disk>>

\* finally: os.unlink of every path in temp_files, then the response leaves
CleanUpTempFiles ==
    /\ upload_pc = "cleanup"
    /\ disk' = disk \ temp_files
    /\ upload_pc' = "finished"
    /\ UNCHANGED <<adjudicator_vars, register_vars, upload_no, has_test_report, saved_paths,
                   temp_files, upload_status>>

\* the request is over; the server waits for the next one
UploadFinished ==
    /\ upload_pc = "finished"
    /\ upload_pc' = "idle"
    /\ UNCHANGED <<adjudicator_vars, register_vars, upload_no, has_test_report, saved_paths,
                   temp_files, disk, upload_status>>

NextUpload ==
    \/ UploadDocuments
    \/ LookupMember
    \/ SavePrescription
    \/ SaveBill
    \/ SaveTestReport
    \/ ProcessDocuments
    \/ AdjudicateUpload
    \/ StoreClaim
    \/ CleanUpTempFiles
    \/ UploadFinished

----------------------------------------------------------------------------
(* main.py: register_member.  Within one server process a request runs to *)
(* its end before the next one starts (the handler has no await), but the  *)
(* members table belongs to the database, which every server process       *)
(* started from this module shares: between the select and the insert of   *)
(* one request the database serves the calls of the others.  The schema of *)
(* the table is not part of the program, so an insert of a member_id that  *)
(* is already stored either adds a row or raises.                          *)

\* the registration requests followed
MaxRegistrations == 3

\* the server processes that share the database
Servers == {1, 2}

MemberIds == {"EMP001", "EMP002"}

\* both tables are empty and no request is being handled
RegisterInit ==
    /\ members = [id \in MemberIds |-> 0]
    /\ audit_log = [id \in MemberIds |-> 0]
    /\ registration = [s \in Servers |->
                          [pc |-> "idle", member_id |-> "", status |-> 0]]
    /\ register_no = 0

\* the request of server s moves to position to
RegistrationAt(s, to, status) ==
    registration' = [registration EXCEPT ![s].pc = to, ![s].status = status]

\* POST /api/v1/members/register arrives at server s
RegisterMember(s) ==
    /\ registration[s].pc = "idle"
    /\ register_no < MaxRegistrations
    /\ register_no' = register_no + 1
    /\ \E id \in MemberIds :
          registration' = [registration EXCEPT
                              ![s] = [pc |-> "select", member_id |-> id,
                                      status |-> 0]]
    /\ UNCHANGED <<adjudicator_vars, upload_vars, members, audit_log>>

\* existing = select from members where member_id = ...: if existing.data the
\* request is answered 400; the call may raise, which is answered 500
SelectExisting(s) ==
    /\ registration[s].pc = "select"
    /\ \/ IF members[registration[s].member_id] > 0
          THEN RegistrationAt(s, "idle", 400)
          ELSE RegistrationAt(s, "insert_member", 0)
       \/ RegistrationAt(s, "idle", 500)
    /\ UNCHANGED <<adjudicator_vars, upload_vars, members, audit_log,
                   register_no>>

\* response = insert into members: the row is stored, or the call raises
\* and the request is answered 500
InsertMember(s) ==
    /\ registration[s].pc = "insert_member"
    /\ \/ /\ members' = [members EXCEPT ![registration[s].member_id] = @ + 1]
          /\ RegistrationAt(s, "insert_audit", 0)
       \/ /\ members' = members
          /\ RegistrationAt(s, "idle", 500)
    /\ UNCHANGED <<adjudicator_vars, upload_vars, audit_log, register_no>>

\* insert into audit_log (member_registered), then the success response; or
\* the call raises and the request is answered 500
InsertAudit(s) ==
    /\ registration[s].pc = "insert_audit"
    /\ \/ /\ audit_log' = [audit_log EXCEPT ![registration[s].member_id] = @ + 1]
          /\ RegistrationAt(s, "idle", 200)
       \/ /\ audit_log' = audit_log
          /\ RegistrationAt(s, "idle", 500)
    /\ UNCHANGED <<adjudicator_vars, upload_vars, members, register_no>>

NextRegister ==
    \/ \E s \in Servers : RegisterMember(s)
    \/ \E s \in Servers : SelectExisting(s)
    \/ \E s \in Servers : InsertMember(s)
    \/ \E s \in Servers : InsertAudit(s)

----------------------------------------------------------------------------
(* The adjudicator: construction, calls, returns                           *)

\* a claim identifier that also counts the call in progress beside it
NewClaimIdCounting(now) ==
    now + (IF waiting_frame.pc = "idle" THEN 0 ELSE 1)

\* f"CLM_{datetime.now().strftime('%Y%m%d%H%M%S')}": the identifier names the
\* second the clock shows, one identifier per second
NewClaimId(now) == now

\* the frame of a thread that is not inside adjudicate_claim
IdleFrame ==
    [pc |-> "idle", claim_data |-> NoClaim, member_info |-> NoMember,
     decision |-> NewDecision, ctx |-> NewContext]

\* ClaimAdjudicator(policy_path): the policy is loaded, no call is running
Init ==
    /\ policy \in Policies
    /\ claim_data = NoClaim
    /\ member_info = NoMember
    /\ pc = "idle"
    /\ decision = NewDecision
    /\ ctx = NewContext
    /\ validator_call = NoValidatorCall
    /\ waiting_frame = IdleFrame
    /\ clock = 0
    /\ UploadInit
    /\ RegisterInit

\* adjudicate_claim(claim_data, member_info) is called with one of calls: the
\* decision dictionary is built with the identifier of the current second
CallWith(calls) ==
    /\ pc = "idle"
    /\ \E c \in calls :
          /\ claim_data' = [prescription |-> c[1], bill |-> c[2]]
          /\ member_info' = c[3]
    /\ decision' = [NewDecision EXCEPT !.claim_id = NewClaimId(clock)]
    /\ ctx' = [NewContext EXCEPT !.now = clock]
    /\ pc' = StageOrder[1]
    /\ UNCHANGED <<policy, validator_call, waiting_frame, clock, service_vars>>

Call == CallWith(Calls)

\* the call is over: the decision or the validator's answer was returned, or
\* the exception propagated
Return ==
    /\ pc \in {"returned", "raised", "answered"}
    /\ pc' = "idle"
    /\ claim_data' = NoClaim
    /\ member_info' = NoMember
    /\ decision' = NewDecision
    /\ ctx' = NewContext
    /\ validator_call' = NoValidatorCall
    /\ UNCHANGED <<policy, waiting_frame, clock, service_vars>>

Next ==
    \/ Call
    \/ ValidateDocuments
    \/ CheckEligibility
    \/ CheckWaitingPeriod
    \/ VerifyCoverage
    \/ ComputeExclusions
    \/ DetectFraud
    \/ CheckPreAuthorization
    \/ ValidateLimits
    \/ ComputeFinalAmount
    \/ Return
    \/ CallCheckLimits
    \/ CallCalculateCopay
    \/ CallDetermineClaimCategory
    \/ CallNamesMatch

Spec == Init /\ [][Next]_vars

----------------------------------------------------------------------------
(* Two threads calling adjudicate_claim on one ClaimAdjudicator: one frame *)
(* runs, the other waits; the policy is the only object both can reach     *)

\* the seconds the clock can show
MaxClock == 1

\* the calls the two threads make: approved, partial, sent to manual review,
\* rejected for missing pre-authorization
TwoCallInputs ==
    { <<Prescription(ViralFever, <<Consultation>>, <<>>, <<>>), ItemisedBill,
        Member(JoinDate, Date(2024, 5, 1), 3000, 0, 0, FALSE)>>,
      <<Prescription(ViralFever, <<Consultation, TeethWhiteningCosmetic>>, <<>>, <<>>),
        ItemisedBill, Member(JoinDate, Date(2024, 5, 1), 3000, 0, 0, FALSE)>>,
      <<Prescription(ViralFever, <<Consultation, TeethWhiteningCosmetic>>, <<>>, <<>>),
        ItemisedBill,
        Member(JoinDate, Date(2024, 5, 1), 4800, MaxSameDay, MaxLastMonth, FALSE)>>,
      <<Prescription(BackPain, <<MRIScan>>, <<>>, <<>>), TestBill,
        Member(JoinDate, Date(2024, 5, 1), 12000, 0, 0, FALSE)>> }

CallOfTwo == CallWith(TwoCallInputs)

\* the frame of the running thread
RunningFrame ==
    [pc |-> pc, claim_data |-> claim_data, member_info |-> member_info,
     decision |-> decision, ctx |-> ctx]

\* the interpreter switches threads: the running frame waits, the waiting
\* frame runs
Switch ==
    /\ pc # "answered"
    /\ waiting_frame' = RunningFrame
    /\ pc' = waiting_frame.pc
    /\ claim_data' = waiting_frame.claim_data
    /\ member_info' = waiting_frame.member_info
    /\ decision' = waiting_frame.decision
    /\ ctx' = waiting_frame.ctx
    /\ UNCHANGED <<policy, validator_call, clock, service_vars>>

\* the clock moves to the next second
Tick ==
    /\ clock < MaxClock
    /\ clock' = clock + 1
    /\ UNCHANGED <<policy, claim_data, member_info, pc, decision, ctx,
                   validator_call, waiting_frame, service_vars>>

\* a step of one of the nine stages of the running call
StageStep ==
    \/ ValidateDocuments
    \/ CheckEligibility
    \/ CheckWaitingPeriod
    \/ VerifyCoverage
    \/ ComputeExclusions
    \/ DetectFraud
    \/ CheckPreAuthorization
    \/ ValidateLimits
    \/ ComputeFinalAmount

NextTwoCalls ==
    \/ CallOfTwo
    \/ ValidateDocuments
    \/ CheckEligibility
    \/ CheckWaitingPeriod
    \/ VerifyCoverage
    \/ ComputeExclusions
    \/ DetectFraud
    \/ CheckPreAuthorization
    \/ ValidateLimits
    \/ ComputeFinalAmount
    \/ Return
    \/ Switch
    \/ Tick

SpecTwoCalls == Init /\ [][NextTwoCalls]_vars

\* the service handling upload requests
SpecUpload == Init /\ [][NextUpload]_vars

\* registration requests at the server processes that share the database
SpecRegister == Init /\ [][NextRegister]_vars

----------------------------------------------------------------------------
(* The claims.  The gates as the arguments of the call decide them: each   *)
(* predicate below reads claim_data, member_info and policy only, never    *)
(* the decision or the working context of the running call.                *)

ArgMemberId == IF member_info.present THEN member_info.member_id ELSE <<>>

ArgTreatmentDate ==
    IF member_info.present THEN member_info.treatment_date
    ELSE claim_data.prescription.treatment_date

ArgClaimAmount ==
    IF member_info.present THEN member_info.claim_amount
    ELSE claim_data.bill.total_amount

ArgTreatments ==
    OrElse(claim_data.prescription.procedures, claim_data.prescription.treatment)

ArgTests ==
    OrElse(claim_data.prescription.tests_prescribed, claim_data.bill.test_names)

ArgCoverage ==
    check_coverage(claim_data.prescription.diagnosis, ArgTreatments,
                   claim_data.prescription.medicines_prescribed)

\* the post-exclusion amount: claim amount less the excluded amount
ArgApprovedAmount ==
    ArgClaimAmount
    - calculate_excluded_amount(claim_data.bill, ArgCoverage.excluded_items)

ArgPreAuthObtained == member_info.present /\ member_info.preauth_obtained

DocumentsGateFires == validate_documents(claim_data) # <<>>

EligibilityGateFires ==
    LET e == check_member_eligibility(ArgMemberId, ArgTreatmentDate)
    IN  ~e.raised /\ ~e.eligible

WaitingGateFires ==
    /\ member_info.present
    /\ Parseable(member_info.member_join_date)
    /\ Parseable(ArgTreatmentDate)
    /\ ~check_waiting_period(member_info.member_join_date, ArgTreatmentDate,
                             claim_data.prescription.diagnosis).satisfied

CoverageGateFires == ~ArgCoverage.covered /\ ~ArgCoverage.partial_coverage

FraudGateFires == check_fraud_indicators(claim_data, member_info) > 5

PreAuthGateFires ==
    /\ requires_preauth(ArgTreatments, ArgTests)
    /\ ~ArgPreAuthObtained
    /\ ArgApprovedAmount > 10000

ArgLimitCheck ==
    check_limits(ArgApprovedAmount, ArgCoverage.category,
                 IF member_info.present THEN member_info.previous_claims_ytd ELSE 0)

LimitsGateFires == ~ArgLimitCheck.within_limits

\* the gates in the order the specification gives them
GateOrder ==
    <<"documents", "eligibility", "waiting", "coverage", "fraud", "preauth",
      "limits">>

GateFires(gate) ==
    CASE gate = "documents" -> DocumentsGateFires
      [] gate = "eligibility" -> EligibilityGateFires
      [] gate = "waiting" -> WaitingGateFires
      [] gate = "coverage" -> CoverageGateFires
      [] gate = "fraud" -> FraudGateFires
      [] gate = "preauth" -> PreAuthGateFires
      [] gate = "limits" -> LimitsGateFires

FiringGates == { i \in 1..Len(GateOrder) : GateFires(GateOrder[i]) }

EarliestFiringGate == GateOrder[SetMin(FiringGates)]

\* decision state, rejection reasons and confidence a gate returns
GateOutcome(gate) ==
    CASE gate = "documents" ->
             <<"REJECTED", validate_documents(claim_data), 100>>
      [] gate = "eligibility" ->
             <<"REJECTED",
               <<check_member_eligibility(ArgMemberId, ArgTreatmentDate).reason>>,
               98>>
      [] gate = "waiting" -> <<"REJECTED", <<"WAITING_PERIOD">>, 96>>
      [] gate = "coverage" -> <<"REJECTED", <<"SERVICE_NOT_COVERED">>, 97>>
      [] gate = "fraud" -> <<"MANUAL_REVIEW", <<>>, 65>>
      [] gate = "preauth" -> <<"REJECTED", <<"PRE_AUTH_MISSING">>, 94>>
      [] gate = "limits" -> <<"REJECTED", <<ArgLimitCheck.limit_type>>, 98>>

DecisionOutcome ==
    <<decision.decision, decision.rejection_reasons, decision.confidence_score>>

InSeq(x, s) == \E i \in 1..Len(s) : s[i] = x

\* C1: the gates run in the order documents, eligibility, waiting period,
\* coverage, fraud, pre-authorization, limits, and the call returns at the
\* first gate that fires.  A terminal decision state (REJECTED, MANUAL_REVIEW)
\* exists only in a call that has returned; the returned decision state,
\* rejection reasons and confidence are exactly those of the earliest gate
\* that fires for the call's arguments, with nothing added by a later gate;
\* and when no gate fires the decision is APPROVED or PARTIAL with no reasons.
C1_FirstFiringGateDecides ==
    /\ decision.decision \in {"REJECTED", "MANUAL_REVIEW"} => pc = "returned"
    /\ pc = "returned" =>
          IF FiringGates = {}
          THEN /\ decision.decision \in {"APPROVED", "PARTIAL"}
               /\ decision.rejection_reasons = <<>>
          ELSE DecisionOutcome = GateOutcome(EarliestFiringGate)

\* C1 witness: a returned call whose arguments fire three gates or more, one
\* of them the waiting-period gate behind a failed document validation
C1_SeveralGatesFire ==
    /\ pc = "returned"
    /\ Cardinality(FiringGates) >= 3
    /\ EarliestFiringGate = "documents"
    /\ WaitingGateFires

\* C2: when the prescription section or the bill section is absent or empty,
\* a call past its document stage has returned REJECTED with rejection
\* reasons exactly <<MISSING_DOCUMENTS>> and confidence 1.0
C2_MissingSectionRejected ==
    (/\ pc \notin {"idle", "documents", "answered"}
     /\ ~claim_data.prescription.present \/ ~claim_data.bill.present)
    => /\ pc = "returned"
       /\ DecisionOutcome = <<"REJECTED", <<"MISSING_DOCUMENTS">>, 100>>

\* C2 witness: a returned call without a bill whose prescription has an
\* invalid doctor registration and no diagnosis
C2_MissingBillBadPrescription ==
    /\ pc = "returned"
    /\ ~claim_data.bill.present
    /\ claim_data.prescription.present
    /\ ~validate_doctor_registration(claim_data.prescription.doctor_reg)
    /\ claim_data.prescription.diagnosis = <<>>

\* C3: the pre-authorization gate compares the post-exclusion amount with
\* 10,000.  A returned decision carries PRE_AUTH_MISSING only when
\* pre-authorization is required, was not obtained, and the claim amount less
\* the excluded amount exceeds 10,000; so a claim whose raw amount exceeds
\* 10,000 and whose post-exclusion amount does not is never rejected for it.
C3_PreAuthOnPostExclusionAmount ==
    /\ InSeq("PRE_AUTH_MISSING", decision.rejection_reasons)
       => /\ requires_preauth(ArgTreatments, ArgTests)
          /\ ~ArgPreAuthObtained
          /\ ArgApprovedAmount > 10000
    /\ (/\ pc = "returned"
        /\ requires_preauth(ArgTreatments, ArgTests)
        /\ ~ArgPreAuthObtained
        /\ ArgClaimAmount > 10000
        /\ ArgApprovedAmount <= 10000)
       => ~InSeq("PRE_AUTH_MISSING", decision.rejection_reasons)

\* C3 witness: a call that required pre-authorization and had none, with a
\* raw amount above 10,000 and a post-exclusion amount of at most 10,000, has
\* passed the pre-authorization stage and returned PARTIAL
C3_RawAboveThresholdPasses ==
    /\ pc = "returned"
    /\ requires_preauth(ArgTreatments, ArgTests)
    /\ ~ArgPreAuthObtained
    /\ ArgClaimAmount > 10000
    /\ ArgApprovedAmount <= 10000
    /\ ArgApprovedAmount < ArgClaimAmount
    /\ decision.decision = "PARTIAL"

\* C4 (as the specification states it): after the exclusions stage of a call
\* with treatments <<Consultation, Teeth whitening (cosmetic)>>, bill items
\* Consultation 1000 and Teeth whitening 2000, and claim amount 3000, the
\* excluded amount is 2000 (the amount of the line item that corresponds to
\* the excluded treatment), the approved claim amount is 1000, and the
\* decision is PARTIAL with the cosmetic item among rejected_items
C4_ExcludedAmountOfExample ==
    (/\ pc = "fraud"
     /\ ArgTreatments = <<Consultation, TeethWhiteningCosmetic>>
     /\ claim_data.bill.items =
            <<Item(Consultation, 1000), Item(TeethWhitening, 2000)>>
     /\ claim_data.bill.teeth_whitening = 0
     /\ ArgClaimAmount = 3000)
    => /\ ctx.excluded_amount = 2000
       /\ ctx.approved_claim_amount = 1000
       /\ decision.decision = "PARTIAL"
       /\ decision.has_rejected_items
       /\ InSeq(TeethWhiteningCosmetic, decision.rejected_items)

\* C5 (as the specification states it): a call that passes document
\* validation, eligibility, waiting period and coverage with
\* previous_claims_same_day = 3 returns MANUAL_REVIEW with confidence 0.65,
\* whatever the claim amount and claims_last_month are
C5_ThreeSameDayClaimsReviewed ==
    (/\ pc = "returned"
     /\ ~DocumentsGateFires /\ ~EligibilityGateFires
     /\ ~WaitingGateFires /\ ~CoverageGateFires
     /\ member_info.previous_claims_same_day = 3)
    => /\ decision.decision = "MANUAL_REVIEW"
       /\ decision.confidence_score = 65

\* the fraud score of the specification, in tenths
SpecFraudScore ==
    Min((IF member_info.previous_claims_same_day >= 3 THEN 5
         ELSE IF member_info.previous_claims_same_day >= 2 THEN 3 ELSE 0)
        + (IF member_info.claims_last_month >= 5 THEN 3 ELSE 0)
        + (IF member_info.claim_amount > 4500 THEN 1 ELSE 0),
        10)

\* C6: the fraud stage computes the score 0.5 (same-day claims >= 3) else 0.3
\* (>= 2), plus 0.3 (last-month claims >= 5), plus 0.1 (claim amount > 4500),
\* capped at 1.0; it returns MANUAL_REVIEW if and only if the score is
\* strictly greater than 0.5, and otherwise hands the call, its decision
\* untouched, to the pre-authorization stage
C6_FraudScoreAndThreshold ==
    [][pc = "fraud" =>
          /\ ctx'.fraud_score = SpecFraudScore
          /\ IF SpecFraudScore > 5
             THEN /\ pc' = "returned"
                  /\ decision'.decision = "MANUAL_REVIEW"
             ELSE /\ pc' = "preauth"
                  /\ decision' = decision]_vars

\* C6 witness: a call with a score of exactly 0.5 has gone on to the
\* pre-authorization stage
C6_ScoreAtThresholdContinues ==
    /\ pc = "preauth"
    /\ ctx.fraud_score = 5
    /\ SpecFraudScore = 5

\* the fraud triggers that contributed to the score
TriggersFired ==
    (IF member_info.previous_claims_same_day >= 2 THEN 1 ELSE 0)
    + (IF member_info.claims_last_month >= 5 THEN 1 ELSE 0)
    + (IF member_info.claim_amount > 4500 THEN 1 ELSE 0)

\* the flags of the decision other than the one the exclusions stage adds
FraudFlags ==
    SelectSeq(decision.flags, LAMBDA f : f # "Contains excluded items")

\* C7 (as the specification states it): a MANUAL_REVIEW decision carries one
\* flag for each fraud trigger that fired (same-day claims, last-month
\* frequency, high amount) and no flag for a trigger that did not fire
C7_OneFlagPerTrigger ==
    (pc = "returned" /\ decision.decision = "MANUAL_REVIEW")
    => Len(FraudFlags) = TriggersFired

\* C7 (amended): a MANUAL_REVIEW decision carries, after the flag of the
\* exclusions stage if that stage set one, the flag "Multiple claims same
\* day" (every review has two same-day claims or more) and the generic flag
\* "Unusual pattern detected"; the last-month and the high-amount trigger
\* have no flag
C7_ManualReviewFlags ==
    (pc = "returned" /\ decision.decision = "MANUAL_REVIEW")
    => /\ member_info.previous_claims_same_day >= 2
       /\ decision.flags =
             (IF ArgCoverage.excluded_items # <<>>
              THEN <<"Contains excluded items">> ELSE <<>>)
             \o <<"Multiple claims same day", "Unusual pattern detected">>

\* C7 witness: a review with exactly two same-day claims, a busy last month
\* and a high amount
C7_ThreeTriggersTwoFlags ==
    /\ pc = "returned"
    /\ decision.decision = "MANUAL_REVIEW"
    /\ member_info.previous_claims_same_day = 2
    /\ TriggersFired = 3
    /\ Len(FraudFlags) = 2

\* the waiting-period check has run on the call's arguments
WaitingChecked ==
    /\ pc \in {"coverage", "exclusions", "fraud", "preauth", "limits", "final",
               "returned"}
    /\ ~DocumentsGateFires
    /\ ~EligibilityGateFires
    /\ member_info.member_join_date # NoDate

\* the configured ailments whose keyword is in the diagnosis
MatchingAilments ==
    LET ailments == policy.waiting_periods.specific_ailments
    IN  { i \in 1..Len(ailments) :
            Contains(Lower(ailments[i].ailment),
                     Lower(claim_data.prescription.diagnosis)) }

\* days between the join date and the treatment date
DaysSinceJoin ==
    ParseDate(ArgTreatmentDate) - ParseDate(member_info.member_join_date)

\* C8 (as the specification states it): one required-days value applies, that
\* of the first matching ailment, or initial_waiting when none matches, and
\* the check is satisfied iff treatment date >= join date + that value
C8_FirstMatchWins ==
    WaitingChecked =>
       LET ailments == policy.waiting_periods.specific_ailments
           required == IF MatchingAilments = {}
                       THEN policy.waiting_periods.initial_waiting
                       ELSE ailments[SetMin(MatchingAilments)].days
       IN  ctx.waiting_check.satisfied <=> DaysSinceJoin >= required

\* C8 (amended): the check is satisfied iff the treatment date is on or after
\* join date + days for every matching ailment and on or after join date +
\* initial_waiting; when it fails, the reported condition is the first
\* matching ailment (configuration order) whose period is unmet, or
\* "initial" when every matching ailment's period is met
C8_EveryMatchingPeriodApplies ==
    WaitingChecked =>
       LET ailments == policy.waiting_periods.specific_ailments
           unmet == { i \in MatchingAilments : DaysSinceJoin < ailments[i].days }
       IN  /\ ctx.waiting_check.satisfied <=>
                 /\ unmet = {}
                 /\ DaysSinceJoin >= policy.waiting_periods.initial_waiting
           /\ ~ctx.waiting_check.satisfied =>
                 ctx.waiting_check.condition =
                     IF unmet # {} THEN ailments[SetMin(unmet)].ailment
                     ELSE <<"i","n","i","t","i","a","l">>

\* C8 witness: the first matching ailment's period is met and the check has
\* failed all the same
C8_FirstMatchMetCheckFails ==
    /\ WaitingChecked
    /\ MatchingAilments # {}
    /\ DaysSinceJoin >=
          policy.waiting_periods.specific_ailments[SetMin(MatchingAilments)].days
    /\ ~ctx.waiting_check.satisfied

\* the first day of the month after a date's month
NextMonthStart(date) ==
    IF date.m < 12 THEN Date(date.y, date.m + 1, 1) ELSE Date(date.y + 1, 1, 1)

RECURSIVE PlusDays(_, _)
\* the date n days later, walked month by month on the calendar
PlusDays(date, n) ==
    LET left == DaysInMonth(date.y, date.m) - date.d
    IN  IF n <= left THEN Date(date.y, date.m, date.d + n)
        ELSE PlusDays(NextMonthStart(date), n - left - 1)

\* the waiting days of a reported condition
DaysOfCondition(condition) ==
    LET ailments == policy.waiting_periods.specific_ailments
    IN  IF condition = <<"i","n","i","t","i","a","l">>
        THEN policy.waiting_periods.initial_waiting
        ELSE ailments[CHOOSE i \in 1..Len(ailments) :
                          ailments[i].ailment = condition].days

\* the waiting-period gate has fired for the call's arguments
WaitingFailed == WaitingChecked /\ WaitingGateFires

\* the inputs of the specification's example, with a diagnosis that names no
\* configured ailment
WaitingExample ==
    /\ member_info.member_join_date = Date(2024, 1, 1)
    /\ policy.waiting_periods.initial_waiting = 90
    /\ ArgTreatmentDate = Date(2024, 2, 1)
    /\ MatchingAilments = {}

\* C9 (as the specification states it): a failed waiting-period check returns
\* REJECTED, WAITING_PERIOD, confidence 0.96, and for join date 2024-01-01,
\* initial_waiting 90 and treatment date 2024-02-01 the reported eligible date
\* is 2024-04-01
C9_ExampleEligibleApril ==
    (WaitingFailed /\ WaitingExample)
    => /\ DecisionOutcome = <<"REJECTED", <<"WAITING_PERIOD">>, 96>>
       /\ decision.notes.eligible_date = Date(2024, 4, 1)

\* C9 (amended): a failed waiting-period check returns REJECTED,
\* WAITING_PERIOD, confidence 0.96, and reports as eligible date the join date
\* plus the waiting days of the reported condition; for join date 2024-01-01,
\* initial_waiting 90 and treatment date 2024-02-01 that date is 2024-03-31
C9_WaitingRejection ==
    WaitingFailed
    => /\ pc = "returned"
       /\ DecisionOutcome = <<"REJECTED", <<"WAITING_PERIOD">>, 96>>
       /\ decision.notes.eligible_date =
             PlusDays(member_info.member_join_date,
                      DaysOfCondition(decision.notes.condition))
       /\ WaitingExample => decision.notes.eligible_date = Date(2024, 3, 31)

\* C9 witness: the example has been rejected
C9_ExampleRejected ==
    /\ WaitingFailed
    /\ WaitingExample
    /\ decision.decision = "REJECTED"

\* a primary-tier keyword is in the diagnosis or in a treatment
PrimaryKeywordHit ==
    \E i \in 1..Len(primary_exclusions) :
       \/ AnyIn(primary_exclusions[i].keywords,
                Lower(claim_data.prescription.diagnosis))
       \/ \E j \in 1..Len(ArgTreatments) :
             AnyIn(primary_exclusions[i].keywords, Lower(ArgTreatments[j]))

\* a secondary-tier keyword is in a treatment
SecondaryKeywordHit ==
    \E i \in 1..Len(secondary_exclusions) :
       \E j \in 1..Len(ArgTreatments) :
          AnyIn(secondary_exclusions[i].keywords, Lower(ArgTreatments[j]))

\* the coverage check has run on the call's arguments
CoverageChecked ==
    /\ pc \in {"exclusions", "fraud", "preauth", "limits", "final", "returned"}
    /\ ~DocumentsGateFires
    /\ ~EligibilityGateFires
    /\ ~WaitingGateFires

\* C10: check_coverage returns covered = false, partial_coverage = false,
\* category "exclusion" iff a primary-tier keyword is in the diagnosis or in
\* any treatment, whatever the secondary-tier matches and the order of the
\* treatments, and the pipeline then returns REJECTED, SERVICE_NOT_COVERED,
\* confidence 0.97; otherwise it returns covered = true, with
\* partial_coverage = true and excluded items iff a treatment has a
\* secondary-tier keyword
C10_CoverageTiers ==
    CoverageChecked =>
       LET c == ctx.coverage_check
       IN  IF PrimaryKeywordHit
           THEN /\ ~c.covered /\ ~c.partial_coverage /\ c.category = "exclusion"
                /\ pc = "returned"
                /\ DecisionOutcome = <<"REJECTED", <<"SERVICE_NOT_COVERED">>, 97>>
           ELSE IF SecondaryKeywordHit
           THEN /\ c.covered /\ c.partial_coverage /\ c.category # "exclusion"
                /\ c.excluded_items # <<>>
           ELSE /\ c.covered /\ ~c.partial_coverage /\ c.category # "exclusion"
                /\ c.excluded_items = <<>>

\* C10 witness: a secondary-tier treatment comes before a primary-tier one
\* and the call has been rejected
C10_SecondaryBeforePrimary ==
    /\ CoverageChecked
    /\ ArgTreatments = <<TeethWhitening, IVFCycle>>
    /\ decision.rejection_reasons = <<"SERVICE_NOT_COVERED">>

\* C11: check_limits reports the first failure only, in this order: amount
\* below the minimum gives BELOW_MIN_AMOUNT; a category with a configured
\* sub-limit is held to that sub-limit alone (SUB_LIMIT_EXCEEDED, max_allowed
\* the sub-limit) and any other category to the per-claim limit
\* (PER_CLAIM_EXCEEDED); then prior-year total + amount above the annual limit
\* gives ANNUAL_LIMIT_EXCEEDED with max_allowed = annual limit - prior-year
\* total; otherwise the amount is within limits.  Dental with sub-limit 5000
\* and amount 6000 gives SUB_LIMIT_EXCEEDED, max_allowed 5000.
C11_LimitOrder ==
    validator_call.method = "check_limits" =>
       LET amount == validator_call.amount
           category == validator_call.category
           previous == validator_call.previous
           r == validator_call.limits
           coverage == policy.coverage_details
           configured == category \in DOMAIN coverage.sub_limit
       IN  /\ IF amount < policy.claim_requirements.minimum_claim_amount
              THEN ~r.within_limits /\ r.limit_type = "BELOW_MIN_AMOUNT"
              ELSE IF configured /\ amount > coverage.sub_limit[category]
              THEN /\ ~r.within_limits /\ r.limit_type = "SUB_LIMIT_EXCEEDED"
                   /\ r.max_allowed = coverage.sub_limit[category]
              ELSE IF ~configured /\ amount > coverage.per_claim_limit
              THEN ~r.within_limits /\ r.limit_type = "PER_CLAIM_EXCEEDED"
              ELSE IF previous + amount > coverage.annual_limit
              THEN /\ ~r.within_limits /\ r.limit_type = "ANNUAL_LIMIT_EXCEEDED"
                   /\ r.max_allowed = coverage.annual_limit - previous
              ELSE r.within_limits
           /\ (/\ category = "dental" /\ coverage.sub_limit["dental"] = 5000
               /\ amount = 6000)
              => /\ r.limit_type = "SUB_LIMIT_EXCEEDED"
                 /\ r.max_allowed = 5000

\* C11 witness: check_limits has answered for a sub-limit category with an
\* amount above the per-claim limit, within the sub-limit and the annual limit
C11_AbovePerClaimWithinSubLimit ==
    /\ pc = "answered"
    /\ validator_call.method = "check_limits"
    /\ validator_call.category \in DOMAIN policy.coverage_details.sub_limit
    /\ validator_call.amount > policy.coverage_details.per_claim_limit
    /\ validator_call.limits.within_limits

\* C12: calculate_copay applies a copay to category consultation_fees only:
\* copay = amount x copay_percentage / 100, discount = amount x
\* max(network_discount - copay_percentage, 0) / 100 in-network and 0
\* otherwise, net payable = amount - copay - discount; every other category
\* has copay 0, discount 0 and net payable = amount.  (Results in paise.)
\* Consultation, copay 20%, network discount 30%, in-network, amount 1000
\* gives copay 200, discount 100, net payable 700.
C12_CopayOnlyForConsultation ==
    validator_call.method = "calculate_copay" =>
       LET amount == validator_call.amount
           r == validator_call.copay
           cfg == policy.coverage_details.consultation_fees
           extra == IF cfg.network_discount > cfg.copay_percentage
                    THEN cfg.network_discount - cfg.copay_percentage ELSE 0
       IN  /\ IF validator_call.category = "consultation_fees"
              THEN /\ r.copay_amount = amount * cfg.copay_percentage
                   /\ r.discount = IF validator_call.is_network
                                   THEN amount * extra ELSE 0
              ELSE r.copay_amount = 0 /\ r.discount = 0
           /\ r.net_payable = 100 * amount - r.copay_amount - r.discount
           /\ (/\ validator_call.category = "consultation_fees"
               /\ cfg.copay_percentage = 20 /\ cfg.network_discount = 30
               /\ validator_call.is_network /\ amount = 1000)
              => r = [copay_amount |-> 20000, discount |-> 10000,
                      net_payable |-> 70000]

\* C12 witness: calculate_copay has answered the example
C12_ExampleAnswered ==
    /\ pc = "answered"
    /\ validator_call.method = "calculate_copay"
    /\ validator_call.category = "consultation_fees"
    /\ policy.coverage_details.consultation_fees.copay_percentage = 20
    /\ policy.coverage_details.consultation_fees.network_discount = 30
    /\ validator_call.is_network
    /\ validator_call.amount = 1000
    /\ validator_call.copay.net_payable = 70000

\* the keyword buckets in the priority order of the specification
BucketOrder == <<"dental", "vision", "alternative_medicine", "diagnostic_tests">>

BucketKeywords(bucket) ==
    CASE bucket = "dental" -> dental_keywords
      [] bucket = "vision" -> vision_keywords
      [] bucket = "alternative_medicine" -> alt_keywords
      [] bucket = "diagnostic_tests" -> diagnostic_keywords

\* the buckets with a keyword in the text of the call: the lower-cased
\* diagnosis, a space, the lower-cased treatments joined by spaces
MatchingBuckets ==
    LET text == Lower(validator_call.diagnosis) \o <<" ">>
                \o Lower(JoinSpace(validator_call.treatments))
    IN  { i \in 1..Len(BucketOrder) : AnyIn(BucketKeywords(BucketOrder[i]), text) }

\* C13: determine_claim_category returns the first bucket, in the order
\* dental, vision, alternative_medicine, diagnostic_tests, with a keyword in
\* the lower-cased diagnosis plus treatments text, and consultation_fees when
\* no bucket has one
C13_CategoryPriority ==
    validator_call.method = "determine_claim_category" =>
       validator_call.claim_category =
          IF MatchingBuckets = {} THEN "consultation_fees"
          ELSE BucketOrder[SetMin(MatchingBuckets)]

\* C13 witness: a text with keywords of three buckets, the diagnostic one
\* first among the treatments, has been categorised
C13_ThreeBucketsMatch ==
    /\ pc = "answered"
    /\ validator_call.method = "determine_claim_category"
    /\ validator_call.treatments = <<MRIScan, DentalFilling>>
    /\ Cardinality(MatchingBuckets) = 3
    /\ validator_call.claim_category = "dental"

\* the call has returned and no gate fires on its arguments
PassedEveryGate == pc = "returned" /\ FiringGates = {}

\* calculate_copay on the post-exclusion amount of the arguments
ArgCopay ==
    calculate_copay(ArgApprovedAmount, ArgCoverage.category,
                    is_network_hospital(OrElse(claim_data.bill.hospital_name,
                                               member_info.hospital)))

\* C14: a claim that passes every gate is returned APPROVED with confidence
\* 0.95 exactly when the coverage check excluded nothing, and PARTIAL with
\* confidence 0.92 otherwise; its approved_amount is the net payable and its
\* deductions the copay and discount of calculate_copay on the post-exclusion
\* amount
C14_Finalization ==
    PassedEveryGate =>
       /\ (decision.decision = "APPROVED") <=> (ArgCoverage.excluded_items = <<>>)
       /\ decision.decision \in {"APPROVED", "PARTIAL"}
       /\ decision.confidence_score =
             IF decision.decision = "APPROVED" THEN 95 ELSE 92
       /\ decision.approved_amount = ArgCopay.net_payable
       /\ decision.deductions = [given |-> TRUE,
                                 copay |-> ArgCopay.copay_amount,
                                 discount |-> ArgCopay.discount]

\* C14 witness: a claim with an excluded bill item has passed every gate and
\* is returned PARTIAL with a copay on the post-exclusion amount
C14_PartialWithCopay ==
    /\ PassedEveryGate
    /\ decision.decision = "PARTIAL"
    /\ ArgApprovedAmount < ArgClaimAmount
    /\ decision.deductions.copay > 0

\* the coverage check reports a partial exclusion of which no bill line item
\* and no surcharge field carries an amount
PartialWithNothingDeducted ==
    /\ ArgCoverage.partial_coverage
    /\ calculate_excluded_amount(claim_data.bill, ArgCoverage.excluded_items) = 0

\* C15: when the coverage check reports a partial exclusion and the computed
\* excluded amount is zero, the exclusions step sets the decision to PARTIAL
\* and deducts nothing from the claim amount, and a claim that passes every
\* later gate is returned PARTIAL, never APPROVED
C15_ZeroExclusionStaysPartial ==
    PartialWithNothingDeducted =>
       /\ pc \in {"fraud", "preauth", "limits", "final"} =>
             /\ decision.decision = "PARTIAL"
             /\ ctx.excluded_amount = 0
             /\ ctx.approved_claim_amount = ArgClaimAmount
       /\ PassedEveryGate =>
             /\ decision.decision = "PARTIAL"
             /\ decision.approved_amount + decision.deductions.copay
                + decision.deductions.discount = 100 * ArgClaimAmount

\* C15 witness: a claim with a partial exclusion that matched no bill amount
\* has passed every gate and is returned
C15_ZeroExclusionReturned ==
    /\ PartialWithNothingDeducted
    /\ PassedEveryGate
    /\ decision.decision = "PARTIAL"
    /\ decision.approved_amount > 0

\* the fraud gate has returned MANUAL_REVIEW for a claim whose coverage check
\* excluded items
ManualReviewAfterPartial ==
    /\ pc = "returned"
    /\ decision.decision = "MANUAL_REVIEW"
    /\ ArgCoverage.excluded_items # <<>>

\* C16 as stated: a MANUAL_REVIEW decision returned after a partial-coverage
\* classification has no rejected_items list and no "Contains excluded items"
\* flag
C16_ManualReviewDiscardsPartialData ==
    ManualReviewAfterPartial =>
       /\ ~decision.has_rejected_items
       /\ ~InSeq("Contains excluded items", decision.flags)

\* C16 amended: a MANUAL_REVIEW decision returned after a partial-coverage
\* classification keeps the partial data: rejected_items is the list of
\* excluded items and "Contains excluded items" is the first flag, followed by
\* the fraud flags; only the decision state, confidence and note are replaced
C16_ManualReviewKeepsPartialData ==
    ManualReviewAfterPartial =>
       /\ decision.has_rejected_items
       /\ decision.rejected_items = ArgCoverage.excluded_items
       /\ Len(decision.flags) >= 2
       /\ decision.flags[1] = "Contains excluded items"
       /\ decision.flags[Len(decision.flags)] = "Unusual pattern detected"
       /\ decision.confidence_score = 65
       /\ decision.rejection_reasons = <<>>

\* C16 witness: the fraud gate has fired on a claim with excluded items
C16_FraudAfterPartial ==
    /\ ManualReviewAfterPartial
    /\ FraudGateFires
    /\ decision.rejected_items # <<>>

\* calendar order of two dates, field by field
DateBefore(a, b) ==
    \/ a.y < b.y
    \/ a.y = b.y /\ a.m < b.m
    \/ a.y = b.y /\ a.m = b.m /\ a.d < b.d

\* the call has returned and its documents passed validation
ReturnedPastDocuments == pc = "returned" /\ ~DocumentsGateFires

\* C17: for a claim that passes document validation, an absent member id is
\* rejected with MEMBER_NOT_FOUND and a treatment date before the policy's
\* effective date with POLICY_INACTIVE, each REJECTED with confidence 0.98
\* and that one reason; a treatment date equal to or after the effective date
\* is not rejected by the eligibility gate
C17_EligibilityGate ==
    ReturnedPastDocuments =>
       IF ArgMemberId = <<>>
       THEN DecisionOutcome = <<"REJECTED", <<"MEMBER_NOT_FOUND">>, 98>>
       ELSE IF DateBefore(ArgTreatmentDate, policy.effective_date)
       THEN DecisionOutcome = <<"REJECTED", <<"POLICY_INACTIVE">>, 98>>
       ELSE /\ ~InSeq("MEMBER_NOT_FOUND", decision.rejection_reasons)
            /\ ~InSeq("POLICY_INACTIVE", decision.rejection_reasons)
            /\ decision.notes.msg # "Member eligibility check failed"

\* C17 witness: a claim treated on the effective date has passed the
\* eligibility gate and is returned by a later stage
C17_TreatedOnEffectiveDate ==
    /\ ReturnedPastDocuments
    /\ ArgMemberId # <<>>
    /\ ArgTreatmentDate = policy.effective_date
    /\ decision.decision # "PENDING"

\* the four checks on two present documents, in the order of the
\* specification
DocumentCheckOrder ==
    <<"INVALID_DOCTOR_REG", "INVALID_PRESCRIPTION", "PATIENT_MISMATCH",
      "DATE_MISMATCH">>

DocumentCheckFails(code) ==
    LET prescription == claim_data.prescription
        bill == claim_data.bill
    IN  CASE code = "INVALID_DOCTOR_REG" ->
                 ~validate_doctor_registration(prescription.doctor_reg)
          [] code = "INVALID_PRESCRIPTION" -> prescription.diagnosis = <<>>
          [] code = "PATIENT_MISMATCH" ->
                 /\ prescription.patient_name # <<>>
                 /\ bill.patient_name # <<>>
                 /\ ~names_match(prescription.patient_name, bill.patient_name)
          [] code = "DATE_MISMATCH" ->
                 /\ prescription.treatment_date # NoDate
                 /\ bill.bill_date # NoDate
                 /\ ~dates_match(prescription.treatment_date, bill.bill_date)

FailedDocumentChecks ==
    { i \in 1..Len(DocumentCheckOrder) : DocumentCheckFails(DocumentCheckOrder[i]) }

BothDocumentsPresent == check_document_completeness(claim_data) = <<>>

\* C18: with both documents present, the reasons of document validation are
\* the codes of all the failed checks, each once, in the order
\* INVALID_DOCTOR_REG, INVALID_PRESCRIPTION, PATIENT_MISMATCH, DATE_MISMATCH;
\* the documents are valid exactly when no check failed, and on any failure
\* the call returns REJECTED with exactly these reasons and confidence 1.0
C18_AllDocumentChecksRun ==
    (BothDocumentsPresent /\ pc \notin {"idle", "documents", "answered"}) =>
       IF FailedDocumentChecks = {}
       THEN /\ validate_documents(claim_data) = <<>>
            /\ \A i \in 1..Len(DocumentCheckOrder) :
                  ~InSeq(DocumentCheckOrder[i], decision.rejection_reasons)
       ELSE LET reasons == decision.rejection_reasons IN
            /\ pc = "returned"
            /\ decision.decision = "REJECTED"
            /\ decision.confidence_score = 100
            /\ Len(reasons) = Cardinality(FailedDocumentChecks)
            /\ \A i \in FailedDocumentChecks : InSeq(DocumentCheckOrder[i], reasons)
            /\ \A j, k \in 1..Len(reasons) :
                  j < k => \E a, b \in FailedDocumentChecks :
                              /\ a < b
                              /\ reasons[j] = DocumentCheckOrder[a]
                              /\ reasons[k] = DocumentCheckOrder[b]

\* C18 witness: a claim that fails all four checks is returned with the four
\* reasons
C18_FourReasons ==
    /\ pc = "returned"
    /\ BothDocumentsPresent
    /\ Cardinality(FailedDocumentChecks) = 4
    /\ Len(decision.rejection_reasons) = 4

\* both threads have a returned call
BothReturned == pc = "returned" /\ waiting_frame.pc = "returned"

\* the two calls were given the same claim data and member context
SameInputs ==
    /\ claim_data = waiting_frame.claim_data
    /\ member_info = waiting_frame.member_info

\* the clock showed the same second when each call built its decision
SameClock == ctx.now = waiting_frame.ctx.now

ApartFromClaimId(d) == [d EXCEPT !.claim_id = 0]

\* the decision of the running frame is the one its arguments give under the
\* loaded policy: the outcome of the earliest gate that fires, or the final
\* amounts of a claim that passes every gate
DecisionAsRunAlone ==
    IF FiringGates # {}
    THEN /\ DecisionOutcome = GateOutcome(EarliestFiringGate)
         /\ decision.approved_amount = 0
         /\ ~decision.deductions.given
    ELSE /\ decision.decision =
               IF ArgCoverage.excluded_items = <<>> THEN "APPROVED" ELSE "PARTIAL"
         /\ decision.rejection_reasons = <<>>
         /\ decision.approved_amount = ArgCopay.net_payable
         /\ decision.deductions = [given |-> TRUE,
                                   copay |-> ArgCopay.copay_amount,
                                   discount |-> ArgCopay.discount]

\* C20: no step changes the loaded policy; a stage of the running call
\* changes neither its inputs nor the frame of the other call; and whatever
\* the interleaving, each returned decision is the one its call gives when
\* run alone, so that two returned calls with the same inputs differ in the
\* claim identifier at most
C20_CallsAreIndependent ==
    /\ [][policy' = policy]_vars
    /\ [][StageStep => /\ claim_data' = claim_data
                       /\ member_info' = member_info
                       /\ waiting_frame' = waiting_frame]_vars
    /\ [](pc = "returned" => DecisionAsRunAlone)
    /\ []((BothReturned /\ SameInputs) =>
             ApartFromClaimId(decision) = ApartFromClaimId(waiting_frame.decision))

\* C20 witness: a call has returned an approved amount while the call of the
\* other thread, made with other inputs in an earlier second, waits inside
\* its fraud stage
C20_ReturnedBesideSuspendedCall ==
    /\ pc = "returned"
    /\ decision.approved_amount > 0
    /\ waiting_frame.pc = "fraud"
    /\ waiting_frame.claim_data # claim_data
    /\ waiting_frame.decision.claim_id < decision.claim_id

\* C21: adjudicate_claim never raises: whatever the claim data and member
\* context, a missing or unparseable treatment date or join date is treated
\* as a passed check and the call goes on to return a Decision record
C21_NeverRaises == pc # "raised"

\* the words of a name after lower-casing and trimming
NameTokens(name) == Words(Strip(Lower(name)))

\* the matching rule of the specification for two names that are present
NamesAgree(name1, name2) ==
    \/ Strip(Lower(name1)) = Strip(Lower(name2))
    \/ LET shared == Cardinality(NameTokens(name1) \cap NameTokens(name2))
           fewer == IF Cardinality(NameTokens(name1)) <= Cardinality(NameTokens(name2))
                    THEN Cardinality(NameTokens(name1))
                    ELSE Cardinality(NameTokens(name2))
       IN  2 * shared >= fewer

\* C22: two names match if one of them is missing, or if after lower-casing
\* and trimming they are equal or share at least 50% of the words of the name
\* with fewer words; the relation is symmetric; and document validation adds
\* PATIENT_MISMATCH exactly when both names are present and do not match
C22_NamesMatch ==
    /\ validator_call.method = "names_match" =>
          LET name1 == validator_call.name1
              name2 == validator_call.name2
          IN  /\ validator_call.names_match <=>
                    (name1 = <<>> \/ name2 = <<>> \/ NamesAgree(name1, name2))
              /\ validator_call.names_match = names_match(name2, name1)
    /\ (BothDocumentsPresent /\ pc \notin {"idle", "documents", "answered"}) =>
          (InSeq("PATIENT_MISMATCH", decision.rejection_reasons) <=>
              /\ claim_data.prescription.patient_name # <<>>
              /\ claim_data.bill.patient_name # <<>>
              /\ ~NamesAgree(claim_data.prescription.patient_name,
                             claim_data.bill.patient_name))

\* C22 witness: a one-word name has been matched against a four-word name
\* that contains it
C22_OneWordOfFour ==
    /\ pc = "answered"
    /\ validator_call.method = "names_match"
    /\ Cardinality(NameTokens(validator_call.name1)) = 4
    /\ Cardinality(NameTokens(validator_call.name2)) = 1
    /\ NameTokens(validator_call.name2) \subseteq NameTokens(validator_call.name1)
    /\ validator_call.names_match

\* C23: every temporary file upload_documents created is deleted by the time
\* its request finishes, on every exit path
C23_TempFilesDeleted == upload_pc \in {"finished", "idle"} => disk = {}

\* C24: register_member never stores a second member row for a member_id
\* that already exists: after any sequence or interleaving of registration
\* requests at most one member row exists per member_id
C24_AtMostOneRowPerMember == \A id \in MemberIds : members[id] <= 1

DecisionStates == {"APPROVED", "REJECTED", "PARTIAL", "MANUAL_REVIEW"}

\* C25: every returned decision is APPROVED, REJECTED, PARTIAL or
\* MANUAL_REVIEW, never PENDING; its rejection_reasons are non-empty exactly
\* when it is REJECTED; and a rejection by a gate after document validation
\* carries exactly one reason code
C25_ReturnedStates ==
    pc = "returned" =>
       /\ decision.decision \in DecisionStates
       /\ (decision.rejection_reasons # <<>>) <=> (decision.decision = "REJECTED")
       /\ (decision.decision = "REJECTED" /\ ~DocumentsGateFires)
          => Len(decision.rejection_reasons) = 1

\* a claim marked PARTIAL by the exclusions step and rejected by a later gate
C25_RejectedAfterPartial ==
    /\ pc = "returned"
    /\ decision.decision = "REJECTED"
    /\ decision.has_rejected_items
    /\ Len(decision.rejection_reasons) = 1

\* C26: every returned REJECTED or MANUAL_REVIEW decision has approved_amount
\* 0 and no deductions; a non-zero approved_amount or a copay or discount
\* deduction appears only in APPROVED and PARTIAL decisions
C26_NothingPaidUnlessApproved ==
    pc = "returned" =>
       /\ decision.decision \in {"REJECTED", "MANUAL_REVIEW"}
          => /\ decision.approved_amount = 0
             /\ decision.deductions = NoDeductions
             /\ ~decision.has_network_discount
       /\ (\/ decision.approved_amount # 0
           \/ decision.deductions # NoDeductions
           \/ decision.has_network_discount)
          => decision.decision \in {"APPROVED", "PARTIAL"}

\* a claim whose post-exclusion amount is positive and that the limit
\* validation rejects
C26_RejectedWithPositiveAmount ==
    /\ pc = "returned"
    /\ decision.decision = "REJECTED"
    /\ ~ctx.limit_check.within_limits
    /\ ctx.excluded_amount > 0
    /\ ctx.approved_claim_amount > 0

\* the sum of the fraud weights of a member context, in tenths, before the
\* cap: same-day claims, last-month frequency, high amount
FraudWeights(mi) ==
    (IF mi.previous_claims_same_day >= 3 THEN 5
     ELSE IF mi.previous_claims_same_day >= 2 THEN 3 ELSE 0)
    + (IF mi.claims_last_month >= 5 THEN 3 ELSE 0)
    + (IF mi.claim_amount > 4500 THEN 1 ELSE 0)

\* C27: MANUAL_REVIEW is returned only when previous_claims_same_day >= 2:
\* without the same-day trigger the score never exceeds 0.5; the score never
\* exceeds 0.9, so the cap at 1.0 never binds; and every MANUAL_REVIEW
\* decision carries the flag "Multiple claims same day"
C27_ManualReviewNeedsSameDay ==
    /\ (pc = "returned" /\ decision.decision = "MANUAL_REVIEW")
       => /\ member_info.present
          /\ member_info.previous_claims_same_day >= 2
          /\ InSeq("Multiple claims same day", decision.flags)
    /\ (member_info.present /\ pc \notin {"idle", "answered"})
       => /\ check_fraud_indicators(claim_data, member_info) <= 9
          /\ check_fraud_indicators(claim_data, member_info)
                = FraudWeights(member_info)
          /\ member_info.previous_claims_same_day < 2
             => check_fraud_indicators(claim_data, member_info) <= 5

\* two same-day claims and a busy month send a claim to manual review
C27_ReviewedWithTwoSameDay ==
    /\ pc = "returned"
    /\ decision.decision = "MANUAL_REVIEW"
    /\ member_info.previous_claims_same_day = 2

\* the policy's percentages are within 0..100 and its minimum claim amount
\* is not negative
PolicyWithinRange ==
    /\ policy.coverage_details.consultation_fees.copay_percentage \in 0..100
    /\ policy.coverage_details.consultation_fees.network_discount \in 0..100
    /\ policy.claim_requirements.minimum_claim_amount >= 0

BillTotal(bill) ==
    SumOver([i \in 1..Len(bill.items) |-> bill.items[i].amount],
            1..Len(bill.items))
    + bill.teeth_whitening + bill.diet_plan

\* C29: the excluded amount counts each bill line item and each surcharge
\* field (teeth_whitening, diet_plan) at most once, so it never exceeds the
\* sum of all line item amounts plus the two surcharge fields
C29_ExcludedAtMostBillTotal ==
    ctx.excluded_amount <= BillTotal(claim_data.bill)

\* a call without member context whose documents are complete and valid
NoMemberValidDocuments ==
    /\ pc \notin {"idle", "answered"}
    /\ ~member_info.present
    /\ ~DocumentsGateFires

\* C30: a call of adjudicate_claim without member context and with complete,
\* valid documents is returned REJECTED with the one reason MEMBER_NOT_FOUND;
\* no stage after eligibility is reached, so it is never APPROVED, PARTIAL or
\* MANUAL_REVIEW
C30_NoMemberRejected ==
    NoMemberValidDocuments =>
       /\ pc \in {"documents", "eligibility", "returned"}
       /\ pc = "returned"
          => /\ decision.decision = "REJECTED"
             /\ decision.rejection_reasons = <<"MEMBER_NOT_FOUND">>
             /\ ctx.coverage_check = NoCoverage

\* the call without member context has returned
C30_NoMemberReturned ==
    /\ NoMemberValidDocuments
    /\ pc = "returned"
    /\ claim_data.prescription.treatment_date # NoDate

====
